---- MODULE Spec2Model ----
(***************************************************************************)
(* A model of simulated_city.config.load_config: the resolution of the     *)
(* active MQTT broker profiles, the merge of common and per-profile        *)
(* settings, the construction of the MqttConfig objects and the parse of   *)
(* the optional simulation block.                                          *)
(*                                                                         *)
(* A YAML scalar is a record [t, s, i]: t is its Python type after         *)
(* yaml.safe_load ("null", "str", "int", "float", "bool"), s its text when *)
(* it is a string, i its number (an int as it is, a float in hundredths, a *)
(* bool as 0/1).  A YAML node that may also be a list or a mapping is a    *)
(* record with a kind field k.                                             *)
(***************************************************************************)
EXTENDS Integers, Sequences, FiniteSets, TLC

VARIABLES
    environ,            \* os.environ: the set variables, name -> value
    dotenv,             \* the local .env file: name -> value
    doc,                \* what the resolved config file holds
    pc,                 \* load_config's position (where it raised, if it did)
    data,               \* load_config's local: the loaded top-level mapping
    active_profiles,    \* load_config's local: the active profile names
    mqtt_config_dicts,  \* load_config's local: ordered dict name -> merged dict
    mqtt_configs,       \* load_config's local: ordered dict name -> MqttConfig
    primary_mqtt,       \* load_config's local: the first MqttConfig or None
    ret,                \* the AppConfig load_config returned, or None
    raised,             \* the error load_config raised, or NoErr
    cwd,                \* Path.cwd(), a directory of the file system
    package_dir,        \* Path(__file__).resolve().parent
    files,              \* the files that exist, as absolute paths
    path,               \* the path argument of _resolve_default_config_path
    phase,              \* _resolve_default_config_path's position
    to_probe,           \* the directories a search has still to look into
    probed,             \* the candidates whose existence a search has tested
    resolved,           \* the Path _resolve_default_config_path returned, or None
    connected,          \* MqttConnector.connected, the threading.Event's flag
    waiter,             \* the caller inside connected.wait(): blocked, notified, or none
    sock,               \* the transport's connection: none, connecting, rejected, established
    client_state,       \* the transport's state: new, connecting, disconnecting, disconnected
    loop_running,       \* a background network loop thread exists
    loops_started,      \* how many network loop threads were ever started
    handle,             \* the publish handle of the last publish_json
    caller,             \* the caller thread's position inside a call
    last_call,             \* how the caller's last call ended
    log,                \* the records the layer has logged
    calls,              \* how many calls the caller has made
    events,             \* how many transport events have happened
    cleared,            \* history: _on_disconnect has run since the last wait began
    cfg,                \* MqttConnector.cfg of a connector built from a loaded config, or None
    attached,           \* the credentials username_pw_set gave that connector's client, or None
    controller,         \* a mode controller: the weather it last saw and its current mode
    trip,               \* a walk to a target: the arguments and results of step_toward_target
    walker              \* a random walker: its position and heading, and the map's bounds

\* The variables of load_config and those of _resolve_default_config_path.
configVars == <<environ, dotenv, doc, pc, data, active_profiles, mqtt_config_dicts,
                mqtt_configs, primary_mqtt, ret, raised>>
pathVars == <<cwd, package_dir, files, path, phase, to_probe, probed, resolved>>

mqttVars == <<connected, waiter, sock, client_state, loop_running, loops_started, handle,
              caller, last_call, log, calls, events, cleared>>

\* The variables of a connector built from the loaded configuration.
clientVars == <<cfg, attached>>

\* The variables of the agents that routing.py and movement.py move.
agentVars == <<controller, trip, walker>>

vars == <<configVars, pathVars, mqttVars, clientVars, agentVars>>

----------------------------------------------------------------------------
(* Scalars and Python's conversions on them.                               *)

Null == [t |-> "null", s |-> "", i |-> 0]
S(x) == [t |-> "str", s |-> x, i |-> 0]
I(n) == [t |-> "int", s |-> "", i |-> n]
F(n) == [t |-> "float", s |-> "", i |-> n]
B(b) == [t |-> "bool", s |-> "", i |-> IF b THEN 1 ELSE 0]

\* Python truthiness of a scalar: None, "", 0, 0.0 and False are falsy.
Truthy(v) ==
    CASE v.t = "null" -> FALSE
      [] v.t = "str" -> v.s # ""
      [] OTHER -> v.i # 0

\* x or y
Or(x, y) == IF Truthy(x) THEN x ELSE y

Digit(d) ==
    CASE d = 0 -> "0" [] d = 1 -> "1" [] d = 2 -> "2" [] d = 3 -> "3"
      [] d = 4 -> "4" [] d = 5 -> "5" [] d = 6 -> "6" [] d = 7 -> "7"
      [] d = 8 -> "8" [] d = 9 -> "9"

RECURSIVE NatStr(_)
NatStr(n) == IF n < 10 THEN Digit(n) ELSE NatStr(n \div 10) \o Digit(n % 10)

IntStr(n) == IF n < 0 THEN "-" \o NatStr(-n) ELSE NatStr(n)

\* str(v)
PyStr(v) ==
    CASE v.t = "str" -> v.s
      [] v.t = "int" -> IntStr(v.i)
      [] v.t = "float" ->
            LET a == IF v.i < 0 THEN -v.i ELSE v.i
            IN  (IF v.i < 0 THEN "-" ELSE "") \o NatStr(a \div 100) \o "."
                    \o Digit((a % 100) \div 10)
                    \o (IF a % 10 = 0 THEN "" ELSE Digit(a % 10))
      [] v.t = "bool" -> (IF v.i = 1 THEN "True" ELSE "False")
      [] OTHER -> "None"

\* The integers whose decimal text the documents of the model may hold.
NumeralValues == {-1, 0, 1, 30, 1883, 8883, 70000}

\* str.strip() and str.lower() on the strings the model's documents hold.
Strip(s) ==
    CASE s = " " -> ""
      [] s = " a" -> "a"
      [] s = " Rain " -> "Rain"
      [] s = " Move_To_Shop " -> "Move_To_Shop"
      [] s = " Al " -> "Al"
      [] s = " Bounce " -> "Bounce"
      [] OTHER -> s

Lower(s) ==
    CASE s = "Bounce" -> "bounce"
      [] s = "Rain" -> "rain"
      [] s = "SUNNY" -> "sunny"
      [] s = "Move_To_Shop" -> "move_to_shop"
      [] s = "RANDOM_WALK" -> "random_walk"
      [] s = "BOUNCE" -> "bounce"
      [] s = "Wrap" -> "wrap"
      [] s = "None" -> "none"
      [] OTHER -> s

\* What a raised ValueError/TypeError says: its kind, the dotted config key (or
\* the profile name) its message names, and the available profile names it lists.
NoErr == [kind |-> "none", key |-> "", avail |-> <<>>]
Err(kind, key) == [kind |-> kind, key |-> key, avail |-> <<>>]

\* A call's outcome: the value it returns, or the error it raises.
Ok(x) == [ok |-> TRUE, val |-> x, err |-> NoErr]
Fail(e) == [ok |-> FALSE, val |-> 0, err |-> e]

\* Python truncates a float towards zero; n is in hundredths.
Trunc(n) == IF n >= 0 THEN n \div 100 ELSE -((-n) \div 100)

\* int(v): a number, or the exception it raises.
ToInt(v) ==
    CASE v.t = "int" -> Ok(v.i)
      [] v.t = "bool" -> Ok(v.i)
      [] v.t = "float" -> Ok(Trunc(v.i))
      [] v.t = "str" ->
            IF \E n \in NumeralValues : IntStr(n) = Strip(v.s)
              THEN Ok(CHOOSE n \in NumeralValues : IntStr(n) = Strip(v.s))
              ELSE Fail(Err("coerce", "int()"))
      [] OTHER -> Fail(Err("coerce", "int()"))

\* float(v), in hundredths.
ToFloat(v) ==
    CASE v.t = "int" -> Ok(100 * v.i)
      [] v.t = "bool" -> Ok(100 * v.i)
      [] v.t = "float" -> Ok(v.i)
      [] v.t = "str" ->
            IF \E n \in NumeralValues : IntStr(n) = Strip(v.s)
              THEN Ok(100 * (CHOOSE n \in NumeralValues : IntStr(n) = Strip(v.s)))
              ELSE Fail(Err("coerce", "float()"))
      [] OTHER -> Fail(Err("coerce", "float()"))

----------------------------------------------------------------------------
(* Nodes: a value that may be absent, a scalar or a list of scalars.       *)

Absent == [k |-> "absent", v |-> Null, l |-> <<>>]
Sc(v) == [k |-> "scalar", v |-> v, l |-> <<>>]
Li(l) == [k |-> "list", v |-> Null, l |-> l]

\* dict.get(key) is None: the key is absent or holds null.
IsNone(n) == n.k = "absent" \/ (n.k = "scalar" /\ n.v.t = "null")

\* Python truthiness of a node: an empty list is falsy.
NodeTruthy(n) ==
    CASE n.k = "absent" -> FALSE
      [] n.k = "scalar" -> Truthy(n.v)
      [] OTHER -> Len(n.l) > 0

RECURSIVE StrTruthy(_)
\* [str(p) for p in l if p]
StrTruthy(l) ==
    IF l = <<>> THEN <<>>
    ELSE (IF Truthy(Head(l)) THEN <<PyStr(Head(l))>> ELSE <<>>) \o StrTruthy(Tail(l))

EmptyMap == [x \in {} |-> Null]

\* d.get(key) on a mapping of scalars.
Get(d, key) == IF key \in DOMAIN d THEN d[key] ELSE Null

----------------------------------------------------------------------------
(* The process environment.  A variable's value is held as its pieces      *)
(* between commas (what str.split(",") returns); the value is the empty    *)
(* string exactly when it is the single piece "".                          *)

Unset == [set |-> FALSE, parts |-> <<>>]
EnvVal(parts) == [set |-> TRUE, parts |-> parts]

\* os.getenv(name)
Getenv(env, name) == IF name \in DOMAIN env THEN env[name] ELSE Unset

EnvStrTruthy(e) == e.set /\ e.parts # <<"">>

RECURSIVE StripNonBlank(_)
\* [p.strip() for p in parts if p.strip()]
StripNonBlank(parts) ==
    IF parts = <<>> THEN <<>>
    ELSE (IF Strip(Head(parts)) # "" THEN <<Strip(Head(parts))>> ELSE <<>>)
            \o StripNonBlank(Tail(parts))

----------------------------------------------------------------------------
(* The config document.                                                    *)

\* The "profiles" node: absent, a scalar, or a mapping from profile key to entry.
NoProfiles == [k |-> "absent", v |-> Null, m |-> EmptyMap]
\* A profile entry: a scalar (null included) or a mapping of broker settings.
EntryMap(m) == [k |-> "map", v |-> Null, m |-> m]
EntryScalar(v) == [k |-> "scalar", v |-> v, m |-> EmptyMap]

\* The "mqtt" node of a document without one (or with a falsy one): {}.
EmptyMqtt ==
    [k |-> "map", v |-> Null, active_profiles |-> Absent, profile |-> Absent,
     default_profile |-> Absent, profiles |-> NoProfiles, other |-> EmptyMap]

\* The "simulation" node of a document without one.
NoSimulation ==
    [k |-> "absent", v |-> Null, m |-> EmptyMap,
     movement |-> [k |-> "absent", v |-> Null, m |-> EmptyMap],
     map |-> [k |-> "absent", v |-> Null, m |-> EmptyMap],
     names |-> Absent, colors |-> Absent,
     locations |-> [k |-> "absent", v |-> Null, l |-> <<>>]]

EmptyData == [mqtt |-> EmptyMqtt, simulation |-> NoSimulation]

\* _load_yaml_dict: a missing file and an empty document load as {}.
LoadYamlDict(d) ==
    CASE d.top = "missing" -> Ok(EmptyData)
      [] d.top = "empty" -> Ok(EmptyData)
      [] d.top = "scalar" -> Fail(Err("shape", "<top level>"))
      [] OTHER -> Ok([mqtt |-> d.mqtt, simulation |-> d.simulation])

\* raw = data.get("mqtt") or {}, and the isinstance check that follows it.
RawMqtt(dat) ==
    CASE dat.mqtt.k = "map" -> Ok(dat.mqtt)
      [] dat.mqtt.k = "scalar" /\ Truthy(dat.mqtt.v) -> Fail(Err("shape", "mqtt"))
      [] OTHER -> Ok(EmptyMqtt)

\* _get_active_profiles
GetActiveProfiles(dat, env) ==
    LET raw == RawMqtt(dat)
        env_profiles == Getenv(env, "SIMCITY_MQTT_PROFILES")
    IN  IF ~raw.ok THEN raw
        ELSE IF EnvStrTruthy(env_profiles)
          THEN Ok(StripNonBlank(env_profiles.parts))
        ELSE LET active == raw.val.active_profiles
                 profile == IF NodeTruthy(raw.val.profile)
                              THEN raw.val.profile
                              ELSE raw.val.default_profile
             IN  IF ~IsNone(active)
                   THEN IF active.k = "list"
                          THEN Ok(StrTruthy(active.l))
                          ELSE Fail(Err("shape", "mqtt.active_profiles"))
                 ELSE IF ~IsNone(profile)
                   THEN IF profile.k = "list"
                          THEN Ok(StrTruthy(profile.l))
                          ELSE Ok(<<PyStr(profile.v)>>)
                 ELSE Ok(<<"local">>)

----------------------------------------------------------------------------
(* Ordered dicts (Python's insertion-ordered dict with string keys): a     *)
(* sequence of [name, val] with no name twice.                             *)

Keys(od) == [j \in 1..Len(od) |-> od[j].name]

HasKey(od, name) == \E j \in 1..Len(od) : od[j].name = name

Lookup(od, name) == od[CHOOSE j \in 1..Len(od) : od[j].name = name].val

\* od[name] = val: an existing key keeps its place, a new one goes last.
DictSet(od, name, val) ==
    IF HasKey(od, name)
      THEN [j \in 1..Len(od) |->
                IF od[j].name = name THEN [name |-> name, val |-> val] ELSE od[j]]
      ELSE Append(od, [name |-> name, val |-> val])

\* Mutant: {**selected, **common}, the common settings win.
MergeCommonWins(common, selected) ==
    [key \in DOMAIN common \cup DOMAIN selected |->
        IF key \in DOMAIN common THEN common[key] ELSE selected[key]]

\* {**common, **selected}
Merge(common, selected) ==
    [key \in DOMAIN common \cup DOMAIN selected |->
        IF key \in DOMAIN selected THEN selected[key] ELSE common[key]]

\* The strings a profile name or key of the model can read as, in Python's
\* string order (by code point).
NameOrder == <<"0", "1", "a", "b", "local", "zz">>

RECURSIVE Repeat(_, _)
Repeat(x, n) == IF n = 0 THEN <<>> ELSE <<x>> \o Repeat(x, n - 1)

RECURSIVE SortedFrom(_, _)
SortedFrom(keys, j) ==
    IF j > Len(NameOrder) THEN <<>>
    ELSE Repeat(NameOrder[j], Cardinality({key \in keys : PyStr(key) = NameOrder[j]}))
            \o SortedFrom(keys, j + 1)

\* sorted(str(k) for k in profiles.keys())
SortedKeyStrs(keys) == SortedFrom(keys, 1)

\* The entry {"host": "localhost", "port": 1883, "tls": False} that stands for
\* 'local' when no profiles are defined.
LocalDefaults ==
    [key \in {"host", "port", "tls"} |->
        CASE key = "host" -> S("localhost")
          [] key = "port" -> I(1883)
          [] OTHER -> B(FALSE)]

\* The keys of the mqtt mapping that select profiles and are no broker settings.
ManagementKeys == {"profiles", "profile", "active_profiles", "active_profile", "default_profile"}

\* raw.items(), as far as the values are scalars: the profile-selection keys
\* that hold a scalar, and every other key of the mqtt mapping.
RawItems(raw) ==
    LET selectors == {key \in {"profiles", "profile", "active_profiles", "default_profile"} :
                          raw[key].k = "scalar"}
    IN  [key \in selectors \cup DOMAIN raw.other |->
            IF key \in selectors THEN raw[key].v ELSE raw.other[key]]

\* common = {k: v for k, v in raw.items() if k not in {...}}
Common(raw) ==
    LET items == RawItems(raw)
    IN  [key \in DOMAIN items \ ManagementKeys |-> items[key]]

\* profiles = raw.get("profiles") or {}, and the isinstance check.
RawProfiles(raw) ==
    CASE raw.profiles.k = "map" -> Ok(raw.profiles.m)
      [] raw.profiles.k = "scalar" /\ Truthy(raw.profiles.v) ->
            Fail(Err("shape", "mqtt.profiles"))
      [] OTHER -> Ok(EmptyMap)

\* Mutant: an unknown profile name is skipped over with an empty mapping.
SelectProfileLenient(profiles, profile_name) ==
    IF profile_name = "local" /\ DOMAIN profiles = {}
      THEN Ok(LocalDefaults)
    ELSE IF S(profile_name) \notin DOMAIN profiles
      THEN Ok(EmptyMap)
    ELSE LET entry == profiles[S(profile_name)]
         IN  IF entry.k = "map" THEN Ok(entry.m)
             ELSE IF ~Truthy(entry.v) THEN Ok(EmptyMap)
             ELSE Fail(Err("shape", "mqtt.profiles." \o profile_name))

\* Mutant: 'local' without profiles selects an empty mapping, not the defaults.
SelectProfileNoDefaults(profiles, profile_name) ==
    IF profile_name = "local" /\ DOMAIN profiles = {}
      THEN Ok(EmptyMap)
    ELSE IF S(profile_name) \notin DOMAIN profiles
      THEN Fail([kind |-> "unknown_profile", key |-> profile_name,
                 avail |-> SortedKeyStrs(DOMAIN profiles)])
    ELSE LET entry == profiles[S(profile_name)]
         IN  IF entry.k = "map" THEN Ok(entry.m)
             ELSE IF ~Truthy(entry.v) THEN Ok(EmptyMap)
             ELSE Fail(Err("shape", "mqtt.profiles." \o profile_name))

\* One turn of _load_mqtt_configs's loop: the mapping selected for profile_name.
SelectProfile(profiles, profile_name) ==
    IF profile_name = "local" /\ DOMAIN profiles = {}
      THEN Ok(LocalDefaults)
    ELSE IF S(profile_name) \notin DOMAIN profiles
      THEN Fail([kind |-> "unknown_profile", key |-> profile_name,
                 avail |-> SortedKeyStrs(DOMAIN profiles)])
    ELSE LET entry == profiles[S(profile_name)]
         IN  IF entry.k = "map" THEN Ok(entry.m)
             ELSE IF ~Truthy(entry.v) THEN Ok(EmptyMap)
             ELSE Fail(Err("shape", "mqtt.profiles." \o profile_name))

RECURSIVE LoadLoopReversed(_, _, _, _)
\* Mutant: the loop walks the profile names from the last to the first.
LoadLoopReversed(profiles, common, names, result) ==
    IF names = <<>> THEN Ok(result)
    ELSE LET last == names[Len(names)]
             selected == SelectProfile(profiles, last)
         IN  IF ~selected.ok THEN selected
             ELSE LoadLoopReversed(profiles, common, SubSeq(names, 1, Len(names) - 1),
                                   DictSet(result, last, Merge(common, selected.val)))

RECURSIVE LoadLoop(_, _, _, _)
\* The loop of _load_mqtt_configs over profile_names, with its early raise.
LoadLoop(profiles, common, names, result) ==
    IF names = <<>> THEN Ok(result)
    ELSE LET selected == SelectProfile(profiles, Head(names))
         IN  IF ~selected.ok THEN selected
             ELSE LoadLoop(profiles, common, Tail(names),
                           DictSet(result, Head(names), Merge(common, selected.val)))

\* _load_mqtt_configs
LoadMqttConfigs(dat, profile_names) ==
    LET raw == RawMqtt(dat)
    IN  IF ~raw.ok THEN raw
        ELSE LET profiles == RawProfiles(raw.val)
             IN  IF ~profiles.ok THEN profiles
                 ELSE LoadLoop(profiles.val, Common(raw.val), profile_names, <<>>)

----------------------------------------------------------------------------
(* MqttConfig.                                                             *)

\* One coerced field of _dict_to_mqtt_config: int(mqtt_dict.get(key) or default)
IntField(mqtt_dict, key, default) == ToInt(Or(Get(mqtt_dict, key), I(default)))

\* str(mqtt_dict.get(key) or default)
StrField(mqtt_dict, key, default) == PyStr(Or(Get(mqtt_dict, key), S(default)))

\* os.getenv(str(name_env)) if name_env else None
EnvField(mqtt_dict, key, env) ==
    IF Truthy(Get(mqtt_dict, key))
      THEN Getenv(env, PyStr(Get(mqtt_dict, key)))
      ELSE Unset

\* _dict_to_mqtt_config
DictToMqttConfig(mqtt_dict, env) ==
    LET port == IntField(mqtt_dict, "port", 1883)
        keepalive_s == IntField(mqtt_dict, "keepalive_s", 60)
    IN  IF ~port.ok THEN port
        ELSE IF ~keepalive_s.ok THEN keepalive_s
        ELSE Ok([host |-> StrField(mqtt_dict, "host", "localhost"),
                 port |-> port.val,
                 tls |-> Truthy(Get(mqtt_dict, "tls")),
                 username |-> EnvField(mqtt_dict, "username_env", env),
                 password |-> EnvField(mqtt_dict, "password_env", env),
                 client_id_prefix |-> StrField(mqtt_dict, "client_id_prefix", "simcity"),
                 keepalive_s |-> keepalive_s.val,
                 base_topic |-> StrField(mqtt_dict, "base_topic", "simulated-city")])

----------------------------------------------------------------------------
(* SimulationConfig.  Optional values: None is <<>>, a value x is <<x>>.   *)

None == <<>>
Some(x) == <<x>>

\* d.get(key, default): the default only when the key is absent.
GetDef(d, key, default) == IF key \in DOMAIN d THEN d[key] ELSE default

\* The first error among the outcomes rs, in evaluation order.
FirstFail(rs) == rs[CHOOSE j \in 1..Len(rs) : ~rs[j].ok /\ \A h \in 1..(j - 1) : rs[h].ok]

AllOk(rs) == \A j \in 1..Len(rs) : rs[j].ok

\* Mutant: the check is `value < 0`, so that zero passes.
EnsurePositiveFloatAllowsZero(value, key_name) ==
    LET parsed == ToFloat(value)
    IN  IF ~parsed.ok THEN parsed
        ELSE IF parsed.val < 0 THEN Fail(Err("range", key_name))
        ELSE parsed

\* _ensure_positive_float
EnsurePositiveFloat(value, key_name) ==
    LET parsed == ToFloat(value)
    IN  IF ~parsed.ok THEN parsed
        ELSE IF parsed.val <= 0 THEN Fail(Err("range", key_name))
        ELSE parsed

\* _ensure_positive_int
EnsurePositiveInt(value, key_name) ==
    LET parsed == ToInt(value)
    IN  IF ~parsed.ok THEN parsed
        ELSE IF parsed.val <= 0 THEN Fail(Err("range", key_name))
        ELSE parsed

\* _ensure_in_range, on hundredths
EnsureInRange(value, key_name, min_value, max_value) ==
    IF value < min_value \/ value > max_value
      THEN Fail(Err("range", key_name))
      ELSE Ok(value)

\* Mutant: any boundary mode is accepted as it is.
CheckBoundaryModeAny(boundary_mode) == Ok(boundary_mode)

\* if boundary_mode != "bounce": raise ValueError(...)
CheckBoundaryMode(boundary_mode) ==
    IF boundary_mode # "bounce"
      THEN Fail(Err("value", "simulation.movement.boundary_mode"))
      ELSE Ok(boundary_mode)

\* Mutant: the bounds are kept in the order they were given.
NormalizeBoundsNoSwap(a, b) == <<a, b>>

\* _normalize_bounds
NormalizeBounds(a, b) == IF a <= b THEN <<a, b>> ELSE <<b, a>>

DefaultNames ==
    <<"Alex", "Sam", "Jordan", "Taylor", "Casey", "Riley", "Morgan", "Avery",
      "Parker", "Quinn">>

DefaultColors ==
    <<"red", "blue", "green", "orange", "purple", "teal", "pink", "brown",
      "gray", "black">>

RECURSIVE StripStrs(_)
\* tuple(str(item).strip() for item in value if str(item).strip())
StripStrs(l) ==
    IF l = <<>> THEN <<>>
    ELSE (IF Strip(PyStr(Head(l))) # "" THEN <<Strip(PyStr(Head(l)))>> ELSE <<>>)
            \o StripStrs(Tail(l))

\* Mutant: a list left empty by the trimming is returned as it is.
ParseStrListKeepsEmpty(value, default, key_name) ==
    IF IsNone(value) THEN Ok(default)
    ELSE IF value.k # "list" THEN Fail(Err("shape", key_name))
    ELSE Ok(StripStrs(value.l))

\* _parse_str_list
ParseStrList(value, default, key_name) ==
    IF IsNone(value) THEN Ok(default)
    ELSE IF value.k # "list" THEN Fail(Err("shape", key_name))
    ELSE IF StripStrs(value.l) = <<>> THEN Ok(default)
    ELSE Ok(StripStrs(value.l))

\* datetime.fromisoformat on the texts the model's documents hold: the local
\* time and the UTC offset in minutes (counted from 2026-01-01T00:00), or naive.
IsoTable(s) ==
    CASE s = "2026-01-01T00:00:00+00:00" -> Ok([local |-> 0, aware |-> TRUE, off |-> 0])
      [] s = "2026-01-01T02:00:00+02:00" -> Ok([local |-> 120, aware |-> TRUE, off |-> 120])
      [] s = "2026-01-01T01:00:00" -> Ok([local |-> 60, aware |-> FALSE, off |-> 0])
      [] OTHER -> Fail(Err("coerce", "fromisoformat()"))

\* s[:-1] + "+00:00" when s ends with "Z"
ZSuffix(s) == IF s = "2026-01-01T00:00:00Z" THEN "2026-01-01T00:00:00+00:00" ELSE s

\* _parse_utc_datetime: minutes in UTC
ParseUtcDatetime(value) ==
    IF value.t # "str" THEN Fail(Err("value", "simulation.start_time"))
    ELSE LET dt == IsoTable(ZSuffix(Strip(value.s)))
         IN  IF ~dt.ok THEN dt
             ELSE Ok(dt.val.local - (IF dt.val.aware THEN dt.val.off ELSE 0))

\* A sub-mapping of the simulation block: raw.get(key) or {}, and its check.
SubMapping(node, key_name) ==
    CASE node.k = "map" -> Ok(node.m)
      [] node.k = "scalar" /\ Truthy(node.v) -> Fail(Err("shape", key_name))
      [] OTHER -> Ok(EmptyMap)

\* One item of simulation.locations.
ParseLocation(item) ==
    IF item.k # "map" THEN Fail(Err("shape", "simulation.locations[]"))
    ELSE LET location_id ==
                Strip(PyStr(Or(Or(Get(item.m, "id"), Get(item.m, "location_id")), S(""))))
         IN  IF location_id = "" THEN Fail(Err("value", "simulation.locations[].id"))
             ELSE IF "lat" \notin DOMAIN item.m \/ "lon" \notin DOMAIN item.m
               THEN Fail(Err("value", "simulation.locations[].lat/lon"))
             ELSE LET lat == ToFloat(item.m["lat"])
                      lon == ToFloat(item.m["lon"])
                  IN  IF ~lat.ok THEN lat
                      ELSE IF ~lon.ok THEN lon
                      ELSE Ok([location_id |-> location_id, lat |-> lat.val,
                               lon |-> lon.val])

RECURSIVE ParseLocations(_, _)
ParseLocations(items, acc) ==
    IF items = <<>> THEN Ok(acc)
    ELSE LET loc == ParseLocation(Head(items))
         IN  IF ~loc.ok THEN loc
             ELSE ParseLocations(Tail(items), Append(acc, loc.val))

\* locations_raw = raw.get("locations") or [], its check and the loop over it.
LocationsOf(node) ==
    CASE node.k = "list" -> ParseLocations(node.l, <<>>)
      [] node.k = "scalar" /\ Truthy(node.v) -> Fail(Err("shape", "simulation.locations"))
      [] OTHER -> Ok(<<>>)

\* _parse_simulation_config, from "timestep_minutes" on: raw is a mapping.
ParseSimulationMapping(raw) ==
    LET timestep_minutes == ToInt(Or(Get(raw.m, "timestep_minutes"), I(15)))
        arrival_prob == ToFloat(Or(Get(raw.m, "arrival_prob"), F(25)))
        bag_fill_delta_pct == ToInt(Or(Get(raw.m, "bag_fill_delta_pct"), I(2)))
        status_boundary_pct == ToInt(Or(Get(raw.m, "status_boundary_pct"), I(10)))
        step_delay_raw ==
            IF Get(raw.m, "step_delay_s").t = "null"
              THEN Get(raw.m, "step_delay_seconds")
              ELSE Get(raw.m, "step_delay_s")
        step_delay_s == IF step_delay_raw.t # "null" THEN ToFloat(step_delay_raw) ELSE Ok(0)
        start_time ==
            IF Get(raw.m, "start_time").t # "null"
              THEN LET dt == ParseUtcDatetime(Get(raw.m, "start_time"))
                   IN  IF dt.ok THEN Ok(Some(dt.val)) ELSE dt
              ELSE Ok(None)
        seed ==
            IF Get(raw.m, "seed").t # "null"
              THEN LET n == ToInt(Get(raw.m, "seed"))
                   IN  IF n.ok THEN Ok(Some(n.val)) ELSE n
              ELSE Ok(None)
        people_count ==
            EnsurePositiveInt(GetDef(raw.m, "people_count", GetDef(raw.m, "num_people", I(5))),
                              "simulation.people_count")
        movement_raw == SubMapping(raw.movement, "simulation.movement")
        mv == IF movement_raw.ok THEN movement_raw.val ELSE EmptyMap
        tick_s == EnsurePositiveFloat(GetDef(mv, "tick_s", F(100)), "simulation.movement.tick_s")
        total_ticks ==
            EnsurePositiveInt(GetDef(mv, "total_ticks", I(20)), "simulation.movement.total_ticks")
        step_distance_m ==
            EnsurePositiveFloat(
                GetDef(mv, "step_distance_m", GetDef(mv, "random_walk_step_m", F(120))),
                "simulation.movement.step_distance_m")
        max_turn_deg ==
            ToFloat(GetDef(mv, "max_turn_deg", GetDef(mv, "random_walk_turn_deg_max", F(4500))))
        in_range ==
            IF max_turn_deg.ok
              THEN EnsureInRange(max_turn_deg.val, "simulation.movement.max_turn_deg", 0, 18000)
              ELSE max_turn_deg
        boundary_mode == Lower(Strip(PyStr(GetDef(mv, "boundary_mode", S("bounce")))))
        mode_check == CheckBoundaryMode(boundary_mode)
        map_raw == SubMapping(raw.map, "simulation.map")
        mp == IF map_raw.ok THEN map_raw.val ELSE EmptyMap
        min_x == ToFloat(GetDef(mp, "min_x", F(0)))
        max_x == ToFloat(GetDef(mp, "max_x", F(10000)))
        min_y == ToFloat(GetDef(mp, "min_y", F(0)))
        max_y == ToFloat(GetDef(mp, "max_y", F(10000)))
        xs == NormalizeBounds(min_x.val, max_x.val)
        ys == NormalizeBounds(min_y.val, max_y.val)
        names == ParseStrList(raw.names, DefaultNames, "simulation.names")
        colors == ParseStrList(raw.colors, DefaultColors, "simulation.colors")
        locations == LocationsOf(raw.locations)
        steps == <<timestep_minutes, arrival_prob, bag_fill_delta_pct, status_boundary_pct,
                   step_delay_s, start_time, seed, people_count, movement_raw, tick_s,
                   total_ticks, step_distance_m, max_turn_deg, in_range, mode_check,
                   map_raw, min_x, max_x, min_y, max_y, names, colors, locations>>
    IN  IF ~AllOk(steps) THEN FirstFail(steps)
        ELSE Ok(Some(
            [timestep_minutes |-> timestep_minutes.val,
             arrival_prob |-> arrival_prob.val,
             bag_fill_delta_pct |-> bag_fill_delta_pct.val,
             status_boundary_pct |-> status_boundary_pct.val,
             publish_every_deposit |-> Truthy(Get(raw.m, "publish_every_deposit")),
             step_delay_s |-> step_delay_s.val,
             start_time |-> start_time.val,
             seed |-> seed.val,
             locations |-> locations.val,
             people_count |-> people_count.val,
             movement |-> [tick_s |-> tick_s.val, total_ticks |-> total_ticks.val,
                           step_distance_m |-> step_distance_m.val,
                           max_turn_deg |-> max_turn_deg.val,
                           boundary_mode |-> boundary_mode],
             map |-> [min_x |-> xs[1], max_x |-> xs[2], min_y |-> ys[1], max_y |-> ys[2]],
             names |-> names.val,
             colors |-> colors.val]))

\* _parse_simulation_config
ParseSimulationConfig(raw) ==
    IF raw.k = "absent" \/ (raw.k = "scalar" /\ raw.v.t = "null") THEN Ok(None)
    ELSE IF raw.k # "map" THEN Fail(Err("shape", "simulation"))
    ELSE ParseSimulationMapping(raw)

----------------------------------------------------------------------------
(* load_config, step by step.                                              *)

\* load_dotenv(override=False): the .env file supplements the environment and
\* never overrides a variable that is already set.
LoadDotenv(env, file) ==
    [name \in DOMAIN env \cup DOMAIN file |->
        IF name \in DOMAIN env THEN env[name] ELSE file[name]]

\* AppConfig(mqtt=..., mqtt_configs=..., simulation=...)
AppConfig(primary, configs, sim_cfg) ==
    [mqtt |-> primary, mqtt_configs |-> configs, simulation |-> sim_cfg]

\* An exception leaves load_config: pc stays at the statement that raised.
Raise(e) ==
    /\ raised' = e
    /\ UNCHANGED <<pc, ret>>

\* load_dotenv and _load_yaml_dict (lines 131-134).
LoadDocument ==
    /\ pc = "call"
    /\ UNCHANGED <<pathVars, mqttVars, clientVars, agentVars>>
    /\ raised = NoErr
    /\ environ' = LoadDotenv(environ, dotenv)
    /\ LET loaded == LoadYamlDict(doc)
       IN  IF loaded.ok
             THEN /\ data' = loaded.val
                  /\ pc' = "loaded"
                  /\ UNCHANGED <<ret, raised>>
             ELSE /\ Raise(loaded.err)
                  /\ UNCHANGED data
    /\ UNCHANGED <<dotenv, doc, active_profiles, mqtt_config_dicts, mqtt_configs,
                   primary_mqtt>>

\* active_profiles = _get_active_profiles(data) (line 135).
ResolveActiveProfiles ==
    /\ pc = "loaded"
    /\ UNCHANGED <<pathVars, mqttVars, clientVars, agentVars>>
    /\ raised = NoErr
    /\ LET active == GetActiveProfiles(data, environ)
       IN  IF active.ok
             THEN /\ active_profiles' = active.val
                  /\ pc' = "profiles"
                  /\ UNCHANGED <<ret, raised>>
             ELSE /\ Raise(active.err)
                  /\ UNCHANGED active_profiles
    /\ UNCHANGED <<environ, dotenv, doc, data, mqtt_config_dicts, mqtt_configs,
                   primary_mqtt>>

\* mqtt_config_dicts = _load_mqtt_configs(data, active_profiles) (line 136).
LoadProfileDicts ==
    /\ pc = "profiles"
    /\ UNCHANGED <<pathVars, mqttVars, clientVars, agentVars>>
    /\ raised = NoErr
    /\ LET dicts == LoadMqttConfigs(data, active_profiles)
       IN  IF dicts.ok
             THEN /\ mqtt_config_dicts' = dicts.val
                  /\ pc' = "build"
                  /\ UNCHANGED <<ret, raised>>
             ELSE /\ Raise(dicts.err)
                  /\ UNCHANGED mqtt_config_dicts
    /\ UNCHANGED <<environ, dotenv, doc, data, active_profiles, mqtt_configs,
                   primary_mqtt>>

\* Mutant: the guard `if primary_mqtt is None` is dropped, so the last broker wins.
NextPrimaryLastWins(primary, mqtt_config) == Some(mqtt_config)

\* if primary_mqtt is None: primary_mqtt = mqtt_config
NextPrimary(primary, mqtt_config) == IF primary = None THEN Some(mqtt_config) ELSE primary

\* One turn of the loop over mqtt_config_dicts.items() (lines 143-147).
BuildMqttConfig ==
    /\ pc = "build"
    /\ UNCHANGED <<pathVars, mqttVars, clientVars, agentVars>>
    /\ raised = NoErr
    /\ Len(mqtt_configs) < Len(mqtt_config_dicts)
    /\ LET item == mqtt_config_dicts[Len(mqtt_configs) + 1]
           mqtt_config == DictToMqttConfig(item.val, environ)
       IN  IF mqtt_config.ok
             THEN /\ mqtt_configs' = DictSet(mqtt_configs, item.name, mqtt_config.val)
                  /\ primary_mqtt' = NextPrimary(primary_mqtt, mqtt_config.val)
                  /\ UNCHANGED <<pc, ret, raised>>
             ELSE /\ Raise(mqtt_config.err)
                  /\ UNCHANGED <<mqtt_configs, primary_mqtt>>
    /\ UNCHANGED <<environ, dotenv, doc, data, active_profiles, mqtt_config_dicts>>

\* The loop is over: if primary_mqtt is None: raise (lines 149-150).
CheckPrimary ==
    /\ pc = "build"
    /\ UNCHANGED <<pathVars, mqttVars, clientVars, agentVars>>
    /\ raised = NoErr
    /\ Len(mqtt_configs) = Len(mqtt_config_dicts)
    /\ IF primary_mqtt = None
         THEN Raise(Err("no_active", ""))
         ELSE /\ pc' = "sim"
              /\ UNCHANGED <<ret, raised>>
    /\ UNCHANGED <<environ, dotenv, doc, data, active_profiles, mqtt_config_dicts,
                   mqtt_configs, primary_mqtt>>

\* Mutant: a simulation block that does not parse is dropped and the brokers
\* are returned without it.
FinishLenient(sim_cfg, primary, configs) ==
    [pc |-> "done",
     ret |-> Some([mqtt |-> primary[1], mqtt_configs |-> configs,
                   simulation |-> IF sim_cfg.ok THEN sim_cfg.val ELSE <<>>]),
     raised |-> NoErr]

\* What load_config does with the outcome of _parse_simulation_config: return
\* the AppConfig, or let the error through.
Finish(sim_cfg, primary, configs) ==
    IF sim_cfg.ok
      THEN [pc |-> "done", ret |-> Some(AppConfig(primary[1], configs, sim_cfg.val)),
            raised |-> NoErr]
      ELSE [pc |-> "sim", ret |-> None, raised |-> sim_cfg.err]

\* sim_cfg = _parse_simulation_config(simulation); return AppConfig(...)
\* (lines 152-158).
ParseSimulationAndReturn ==
    /\ pc = "sim"
    /\ UNCHANGED <<pathVars, mqttVars, clientVars, agentVars>>
    /\ raised = NoErr
    /\ LET out == Finish(ParseSimulationConfig(data.simulation), primary_mqtt, mqtt_configs)
       IN  /\ pc' = out.pc
           /\ ret' = out.ret
           /\ raised' = out.raised
    /\ UNCHANGED <<environ, dotenv, doc, data, active_profiles, mqtt_config_dicts,
                   mqtt_configs, primary_mqtt>>

Next ==
    \/ LoadDocument
    \/ ResolveActiveProfiles
    \/ LoadProfileDicts
    \/ BuildMqttConfig
    \/ CheckPrimary
    \/ ParseSimulationAndReturn

----------------------------------------------------------------------------
(* _resolve_default_config_path.  A Path is [abs, parts]: whether it is    *)
(* anchored at the root, and its components; a directory is the sequence   *)
(* of its components from the root.                                        *)

\* Path(path): pathlib drops the "." components of the string it is given.
RECURSIVE DropDots(_)
DropDots(parts) ==
    IF parts = <<>> THEN <<>>
    ELSE (IF Head(parts) = "." THEN <<>> ELSE <<Head(parts)>>) \o DropDots(Tail(parts))

PurePath(raw) == [abs |-> raw.abs, parts |-> DropDots(raw.parts)]

\* parent / name, an absolute path
Under(dir, name) == [abs |-> TRUE, parts |-> Append(dir, name)]

\* The directories of the file system.
Dirs ==
    { <<>>, <<"proj">>, <<"proj", "nb">>, <<"proj", "nb", "deep">>, <<"proj", "src">>,
      <<"site">> }

\* p.exists(), a relative path being taken from the working directory
Exists(p, fs, wd) ==
    LET full == IF p.abs THEN p.parts ELSE wd \o p.parts
    IN  full \in fs \/ full \in Dirs

\* Mutant: the parents are walked from the root down.
RECURSIVE ParentsRootFirst(_)
ParentsRootFirst(start) ==
    IF start = <<>> THEN << <<>> >>
    ELSE ParentsRootFirst(SubSeq(start, 1, Len(start) - 1)) \o <<start>>

\* [start, *start.parents]: the directory, then its ancestors up to the root.
RECURSIVE Parents(_)
Parents(start) ==
    IF start = <<>> THEN << <<>> >>
    ELSE <<start>> \o Parents(SubSeq(start, 1, Len(start) - 1))

\* The head of _resolve_default_config_path (lines 499-507): absolute and
\* existing paths, and paths with a parent other than ".", are returned as they
\* are; for a bare file name the search from the working directory begins.
BeginResolve ==
    /\ phase = "call"
    /\ LET p == PurePath(path)
       IN  IF p.abs \/ Exists(p, files, cwd) \/ Len(p.parts) > 1
             THEN /\ resolved' = Some(p)
                  /\ phase' = "returned"
                  /\ UNCHANGED to_probe
             ELSE /\ to_probe' = Parents(cwd)
                  /\ phase' = "cwd_search"
                  /\ UNCHANGED resolved
    /\ UNCHANGED <<cwd, package_dir, files, path, probed>>
    /\ UNCHANGED <<configVars, mqttVars, clientVars, agentVars>>

\* One turn of search_upwards' loop (lines 509-514): the candidate in the next
\* parent is returned if it exists.
ProbeParent ==
    /\ phase \in {"cwd_search", "package_search"}
    /\ to_probe # <<>>
    /\ LET candidate == Under(Head(to_probe), PurePath(path).parts[1])
       IN  /\ probed' = Append(probed, candidate)
           /\ IF Exists(candidate, files, cwd)
                THEN /\ resolved' = Some(candidate)
                     /\ phase' = "returned"
                     /\ to_probe' = <<>>
                ELSE /\ to_probe' = Tail(to_probe)
                     /\ UNCHANGED <<resolved, phase>>
    /\ UNCHANGED <<cwd, package_dir, files, path>>
    /\ UNCHANGED <<configVars, mqttVars, clientVars, agentVars>>

\* The search from the working directory found nothing: the search from the
\* package's directory begins (lines 516-522).
BeginPackageSearch ==
    /\ phase = "cwd_search"
    /\ to_probe = <<>>
    /\ to_probe' = Parents(package_dir)
    /\ phase' = "package_search"
    /\ UNCHANGED <<cwd, package_dir, files, path, probed, resolved>>
    /\ UNCHANGED <<configVars, mqttVars, clientVars, agentVars>>

\* Neither search found the file: return p (line 526).
ReturnUnresolved ==
    /\ phase = "package_search"
    /\ to_probe = <<>>
    /\ resolved' = Some(PurePath(path))
    /\ phase' = "returned"
    /\ UNCHANGED <<cwd, package_dir, files, path, probed, to_probe>>
    /\ UNCHANGED <<configVars, mqttVars, clientVars, agentVars>>

ResolveNext ==
    \/ BeginResolve
    \/ ProbeParent
    \/ BeginPackageSearch
    \/ ReturnUnresolved

----------------------------------------------------------------------------
(* MqttConnector and MqttPublisher: one caller thread, and the transport   *)
(* client's background network loop that runs the callbacks.               *)

\* The most calls the caller makes, and the most events of the transport.
MaxCalls == 3
MaxEvents == 4

\* The reason codes of a CONNACK: 0 accepts, any other refuses.
ReasonCodes == {0, 5, 135}

\* The errors client.connect raises when the handshake cannot start; connect()
\* catches them (OSError and its subclasses), logs and raises them again.
ConnectErrors == {"gaierror", "ConnectionRefusedError", "SSLError"}

\* How a call ended: what it returned or the exception it raised.
NoResult == [op |-> "none", val |-> FALSE, err |-> "none", seq |-> 0]
Returns(op, val) == [op |-> op, val |-> val, err |-> "none", seq |-> calls]
Raises(op, err) == [op |-> op, val |-> FALSE, err |-> err, seq |-> calls]

NoHandle == [rc |-> "none", qos |-> 0, published |-> FALSE]

\* Mutant: any CONNACK sets the flag.
OnConnectSetsAlways(rc, flag) == TRUE

\* _on_connect on the flag: connected.set() if rc == 0
OnConnectFlag(rc, flag) == IF rc = 0 THEN TRUE ELSE flag

\* What _on_connect logs.
OnConnectLog(rc) == IF rc = 0 THEN "info: connected" ELSE "error: connect failed"

\* Mutant: the flag survives a disconnect.
OnDisconnectKeeps(flag) == flag

\* _on_disconnect on the flag: connected.clear()
OnDisconnectFlag(flag) == FALSE

\* Mutant: set() wakes nobody.
EventSetSilent(w) == w

\* threading.Event.set() on a thread blocked in wait(): it is notified.
EventSet(w) == IF w = "blocked" THEN "notified" ELSE w

\* Mutant: wait_for_connection reports success whatever wait() says.
WaitReturnTrue(w) == TRUE

\* What connected.wait(timeout) returns to a caller it had blocked: whether it
\* was notified before the timeout.
WaitReturn(w) == w = "notified"

\* The background loop receives a CONNACK and runs _on_connect (lines 44-49).
ConnAck(rc) ==
    /\ loop_running
    /\ sock = "connecting"
    /\ events < MaxEvents
    /\ events' = events + 1
    /\ sock' = IF rc = 0 THEN "established" ELSE "rejected"
    /\ connected' = OnConnectFlag(rc, connected)
    /\ waiter' = IF OnConnectFlag(rc, connected) /\ ~connected THEN EventSet(waiter) ELSE waiter
    /\ log' = Append(log, OnConnectLog(rc))
    /\ UNCHANGED <<client_state, loop_running, loops_started, handle, caller, last_call,
                   calls, cleared>>
    /\ UNCHANGED <<configVars, pathVars, clientVars, agentVars>>

\* The background loop finds the connection lost and runs _on_disconnect
\* (lines 51-53).
Drop ==
    /\ loop_running
    /\ sock \in {"connecting", "rejected", "established"}
    /\ events < MaxEvents
    /\ events' = events + 1
    /\ sock' = "none"
    /\ connected' = OnDisconnectFlag(connected)
    /\ cleared' = TRUE
    /\ log' = Append(log, "warning: disconnected")
    /\ UNCHANGED <<waiter, client_state, loop_running, loops_started, handle, caller,
                   last_call, calls>>
    /\ UNCHANGED <<configVars, pathVars, clientVars, agentVars>>

\* Mutant: the network loop never connects again after a drop.
LoopReconnectNever(ok) == FALSE

\* The background loop, started by loop_start (line 59), connects again on its
\* own after a drop unless disconnect was asked for; a failure is retried later.
LoopReconnect(ok) ==
    /\ loop_running
    /\ sock = "none"
    /\ client_state = "connecting"
    /\ events < MaxEvents
    /\ events' = events + 1
    /\ sock' = IF ok THEN "connecting" ELSE "none"
    /\ UNCHANGED <<connected, waiter, client_state, loop_running, loops_started, handle,
                   caller, last_call, log, calls, cleared>>
    /\ UNCHANGED <<configVars, pathVars, clientVars, agentVars>>

\* The background loop has handed the published message over (what
\* wait_for_publish, line 89, waits for).
ConfirmPublish ==
    /\ loop_running
    /\ sock = "established"
    /\ handle.rc # "none"
    /\ ~handle.published
    /\ events < MaxEvents
    /\ events' = events + 1
    /\ handle' = [handle EXCEPT !.published = TRUE]
    /\ UNCHANGED <<connected, waiter, sock, client_state, loop_running, loops_started,
                   caller, last_call, log, calls, cleared>>
    /\ UNCHANGED <<configVars, pathVars, clientVars, agentVars>>

\* Mutant: the network loop is started even when client.connect raises.
ConnectCallStartsLoop(outcome) ==
    /\ caller = "idle"
    /\ calls < MaxCalls
    /\ calls' = calls + 1
    /\ CASE outcome = "ok" ->
              /\ sock' = "connecting"
              /\ client_state' = "connecting"
              /\ caller' = "loop_start"
              /\ UNCHANGED <<last_call, log, loop_running>>
         [] OTHER ->
              /\ sock' = "none"
              /\ client_state' = "connecting"
              /\ loop_running' = TRUE
              /\ log' = Append(log, "error: connecting")
              /\ last_call' = [Raises("connect", outcome) EXCEPT !.seq = calls + 1]
              /\ UNCHANGED caller
    /\ UNCHANGED <<connected, waiter, loops_started, handle, events, cleared>>
    /\ UNCHANGED <<configVars, pathVars, clientVars, agentVars>>

\* connect(), line 58: self.client.connect(...).  A connection that is open is
\* closed first; an OSError is logged and raised again (lines 60-62), a
\* ValueError of the argument checks is raised before anything is done.
ConnectCall(outcome) ==
    /\ caller = "idle"
    /\ calls < MaxCalls
    /\ calls' = calls + 1
    /\ CASE outcome = "ok" ->
              /\ sock' = "connecting"
              /\ client_state' = "connecting"
              /\ caller' = "loop_start"
              /\ UNCHANGED <<last_call, log>>
         [] outcome = "ValueError" ->
              /\ last_call' = [Raises("connect", outcome) EXCEPT !.seq = calls + 1]
              /\ UNCHANGED <<sock, client_state, caller, log>>
         [] OTHER ->
              /\ sock' = "none"
              /\ client_state' = "connecting"
              /\ log' = Append(log, "error: connecting")
              /\ last_call' = [Raises("connect", outcome) EXCEPT !.seq = calls + 1]
              /\ UNCHANGED caller
    /\ UNCHANGED <<connected, waiter, loop_running, loops_started, handle, events, cleared>>
    /\ UNCHANGED <<configVars, pathVars, clientVars, agentVars>>

\* Mutant: every loop_start() starts another loop thread.
LoopStartSecond ==
    /\ caller = "loop_start"
    /\ loop_running' = TRUE
    /\ loops_started' = loops_started + 1
    /\ caller' = "idle"
    /\ last_call' = Returns("connect", TRUE)
    /\ UNCHANGED <<connected, waiter, sock, client_state, handle, log, calls, events, cleared>>
    /\ UNCHANGED <<configVars, pathVars, clientVars, agentVars>>

\* connect(), line 59: self.client.loop_start() starts the loop thread unless
\* one exists; connect() returns.
LoopStart ==
    /\ caller = "loop_start"
    /\ loop_running' = TRUE
    /\ loops_started' = IF loop_running THEN loops_started ELSE loops_started + 1
    /\ caller' = "idle"
    /\ last_call' = Returns("connect", TRUE)
    /\ UNCHANGED <<connected, waiter, sock, client_state, handle, log, calls, events, cleared>>
    /\ UNCHANGED <<configVars, pathVars, clientVars, agentVars>>

\* Mutant: disconnect() leaves the network loop running.
DisconnectCallKeepsLoop ==
    /\ caller = "idle"
    /\ calls < MaxCalls
    /\ calls' = calls + 1
    /\ caller' = "client_disconnect"
    /\ UNCHANGED <<connected, waiter, sock, client_state, loop_running, loops_started,
                   handle, last_call, log, events, cleared>>
    /\ UNCHANGED <<configVars, pathVars, clientVars, agentVars>>

\* disconnect(), line 66: self.client.loop_stop() ends and joins the loop
\* thread, if there is one.
DisconnectCall ==
    /\ caller = "idle"
    /\ calls < MaxCalls
    /\ calls' = calls + 1
    /\ loop_running' = FALSE
    /\ caller' = "client_disconnect"
    /\ UNCHANGED <<connected, waiter, sock, client_state, loops_started, handle, last_call,
                   log, events, cleared>>
    /\ UNCHANGED <<configVars, pathVars, clientVars, agentVars>>

\* Mutant: client.disconnect() closes the connection without running the
\* disconnect callback.
ClientDisconnectNoCallback ==
    /\ caller = "client_disconnect"
    /\ client_state' = IF sock = "none" THEN "disconnected" ELSE "disconnecting"
    /\ sock' = "none"
    /\ log' = Append(log, "info: disconnected")
    /\ caller' = "idle"
    /\ last_call' = Returns("disconnect", TRUE)
    /\ UNCHANGED <<connected, cleared, waiter, loop_running, loops_started, handle, calls,
                   events>>
    /\ UNCHANGED <<configVars, pathVars, clientVars, agentVars>>

\* disconnect(), lines 67-68: self.client.disconnect() and the log record.  With
\* a connection open the transport sends DISCONNECT, closes it and runs
\* _on_disconnect in the caller's thread; with none it only reports so.
ClientDisconnect ==
    /\ caller = "client_disconnect"
    /\ IF sock = "none"
         THEN /\ client_state' = "disconnected"
              /\ log' = Append(log, "info: disconnected")
              /\ UNCHANGED <<sock, connected, cleared>>
         ELSE /\ client_state' = "disconnecting"
              /\ sock' = "none"
              /\ connected' = OnDisconnectFlag(connected)
              /\ cleared' = TRUE
              /\ log' = log \o <<"warning: disconnected", "info: disconnected">>
    /\ caller' = "idle"
    /\ last_call' = Returns("disconnect", TRUE)
    /\ UNCHANGED <<waiter, loop_running, loops_started, handle, calls, events>>
    /\ UNCHANGED <<configVars, pathVars, clientVars, agentVars>>

\* wait_for_connection, line 72: connected.wait(timeout) returns at once if the
\* flag is set and blocks otherwise.
WaitCall ==
    /\ caller = "idle"
    /\ calls < MaxCalls
    /\ calls' = calls + 1
    /\ cleared' = FALSE
    /\ IF connected
         THEN /\ last_call' = [Returns("wait", TRUE) EXCEPT !.seq = calls + 1]
              /\ UNCHANGED <<waiter, caller>>
         ELSE /\ waiter' = "blocked"
              /\ caller' = "waiting"
              /\ UNCHANGED last_call
    /\ UNCHANGED <<connected, sock, client_state, loop_running, loops_started, handle, log,
                   events>>
    /\ UNCHANGED <<configVars, pathVars, clientVars, agentVars>>

\* connected.wait(timeout): the blocked caller was notified by set() and
\* returns True.
WaitWake ==
    /\ caller = "waiting"
    /\ waiter = "notified"
    /\ waiter' = "none"
    /\ caller' = "idle"
    /\ last_call' = Returns("wait", WaitReturn(waiter))
    /\ UNCHANGED <<connected, sock, client_state, loop_running, loops_started, handle, log,
                   calls, events, cleared>>
    /\ UNCHANGED <<configVars, pathVars, clientVars, agentVars>>

\* connected.wait(timeout): the timeout elapses on the blocked caller, which
\* returns False.
WaitTimeout ==
    /\ caller = "waiting"
    /\ waiter = "blocked"
    /\ waiter' = "none"
    /\ caller' = "idle"
    /\ last_call' = Returns("wait", WaitReturn(waiter))
    /\ UNCHANGED <<connected, sock, client_state, loop_running, loops_started, handle, log,
                   calls, events, cleared>>
    /\ UNCHANGED <<configVars, pathVars, clientVars, agentVars>>

\* The caller reads the readiness flag: connector.connected.is_set().
Observe ==
    /\ caller = "idle"
    /\ calls < MaxCalls
    /\ calls' = calls + 1
    /\ last_call' = [Returns("is_set", connected) EXCEPT !.seq = calls + 1]
    /\ UNCHANGED <<connected, waiter, sock, client_state, loop_running, loops_started,
                   handle, caller, log, events, cleared>>
    /\ UNCHANGED <<configVars, pathVars, clientVars, agentVars>>

\* publish_json, lines 83-90, up to the return for qos 0: the warning when the
\* transport is not connected, and client.publish.
PublishCall(qos) ==
    /\ caller = "idle"
    /\ calls < MaxCalls
    /\ calls' = calls + 1
    /\ log' = IF sock # "established" THEN Append(log, "warning: not connected") ELSE log
    /\ handle' = [rc |-> IF sock = "none" THEN "NO_CONN" ELSE "SUCCESS",
                  qos |-> qos, published |-> FALSE]
    /\ IF qos > 0
         THEN /\ caller' = "wait_for_publish"
              /\ UNCHANGED last_call
         ELSE /\ last_call' = [Returns("publish", TRUE) EXCEPT !.seq = calls + 1]
              /\ UNCHANGED caller
    /\ UNCHANGED <<connected, waiter, sock, client_state, loop_running, loops_started,
                   events, cleared>>
    /\ UNCHANGED <<configVars, pathVars, clientVars, agentVars>>

\* Mutant: publish_json returns without waiting for the handoff.
WaitForPublishAtOnce ==
    /\ caller = "wait_for_publish"
    /\ last_call' = Returns("publish", TRUE)
    /\ caller' = "idle"
    /\ UNCHANGED <<connected, waiter, sock, client_state, loop_running, loops_started,
                   handle, log, calls, events, cleared>>
    /\ UNCHANGED <<configVars, pathVars, clientVars, agentVars>>

\* publish_json, lines 88-90: result.wait_for_publish() raises for a handle
\* that reports no connection, and otherwise returns once the message is handed
\* over.
WaitForPublish ==
    /\ caller = "wait_for_publish"
    /\ handle.rc = "NO_CONN" \/ handle.published
    /\ last_call' = IF handle.rc = "NO_CONN"
                   THEN Raises("publish", "RuntimeError")
                   ELSE Returns("publish", TRUE)
    /\ caller' = "idle"
    /\ UNCHANGED <<connected, waiter, sock, client_state, loop_running, loops_started,
                   handle, log, calls, events, cleared>>
    /\ UNCHANGED <<configVars, pathVars, clientVars, agentVars>>

MqttNext ==
    \/ \E outcome \in {"ok", "ValueError"} \cup ConnectErrors : ConnectCall(outcome)
    \/ LoopStart
    \/ DisconnectCall
    \/ ClientDisconnect
    \/ WaitCall
    \/ WaitWake
    \/ WaitTimeout
    \/ Observe
    \/ \E qos \in {0, 1, 2} : PublishCall(qos)
    \/ WaitForPublish
    \/ \E rc \in ReasonCodes : ConnAck(rc)
    \/ Drop
    \/ \E ok \in BOOLEAN : LoopReconnect(ok)
    \/ ConfirmPublish

\* MqttConnector.__init__ (lines 29-42): the flag is clear, no connection, no loop.
NewConnector ==
    /\ connected = FALSE
    /\ waiter = "none"
    /\ sock = "none"
    /\ client_state = "new"
    /\ loop_running = FALSE
    /\ loops_started = 0
    /\ handle = NoHandle
    /\ caller = "idle"
    /\ last_call = NoResult
    /\ log = <<>>
    /\ calls = 0
    /\ events = 0
    /\ cleared = FALSE

----------------------------------------------------------------------------
(* A connector built from a configuration that load_config returned.       *)

\* No connector was built from a loaded configuration.
NoClient ==
    /\ cfg = None
    /\ attached = None

\* Mutant: credentials are attached as soon as a password was resolved.
UsernamePwSetOnPassword(config) ==
    IF config.username.set \/ config.password.set
      THEN Some([username |-> config.username, password |-> config.password])
      ELSE None

\* MqttConnector.__init__, lines 34-35:
\* if cfg.username is not None: client.username_pw_set(cfg.username, password=cfg.password)
UsernamePwSet(config) ==
    IF config.username.set
      THEN Some([username |-> config.username, password |-> config.password])
      ELSE None

\* MqttConnector(cfg) on one of the configurations load_config returned
\* (lines 29-35).
MakeConnector ==
    /\ pc = "done"
    /\ \E j \in 1..Len(ret[1].mqtt_configs) :
          /\ cfg' = Some(ret[1].mqtt_configs[j].val)
          /\ attached' = UsernamePwSet(ret[1].mqtt_configs[j].val)
    /\ pc' = "connector"
    /\ UNCHANGED <<environ, dotenv, doc, data, active_profiles, mqtt_config_dicts,
                   mqtt_configs, primary_mqtt, ret, raised>>
    /\ UNCHANGED <<pathVars, mqttVars, agentVars>>

----------------------------------------------------------------------------
(* The agents of routing.py and movement.py, before any of them is moved.  *)

NoController ==
    controller = [weather_state |-> "", current_mode |-> "", transitions |-> 0, tick |-> 0]

NoTrip ==
    trip = [x |-> 0, y |-> 0, target_x |-> 0, target_y |-> 0,
            step_distance |-> [whole |-> 0, tiny |-> 0],
            arrived |-> FALSE, raised |-> "none", steps |-> 0]

NoWalker ==
    walker = [x |-> 0, y |-> 0, heading_deg |-> [whole |-> 0, tiny |-> 0], min_x |-> 0, max_x |-> 0, min_y |-> 0,
              max_y |-> 0, phase |-> "idle", moves |-> 0]

NoAgents == NoController /\ NoTrip /\ NoWalker

----------------------------------------------------------------------------
(* The documents and environments the model loads.                         *)

\* The longest active_profiles list of a document.
MaxActive == 2

\* Sequences over X of length at most n.
SeqsUpTo(X, n) == UNION {[1..m -> X] : m \in 0..n}

\* A mapping from a record of optional values: the keys whose option is set.
MapOf(opt) == [key \in {q \in DOMAIN opt : opt[q] # None} |-> opt[key][1]]

Mqtt(active, profile, default_profile, profiles, common) ==
    [k |-> "map", v |-> Null, active_profiles |-> active, profile |-> profile,
     default_profile |-> default_profile, profiles |-> profiles, other |-> common]

Profiles(m) == [k |-> "map", v |-> Null, m |-> m]

Doc(mqtt, simulation) == [top |-> "map", mqtt |-> mqtt, simulation |-> simulation]

HostA == EntryMap(MapOf([host |-> Some(S("a.example.com")), port |-> Some(I(8883)),
                         tls |-> Some(B(TRUE))]))
HostB == EntryMap(MapOf([host |-> Some(S("b.example.com")), port |-> None,
                         tls |-> None]))
HostLocal == EntryMap(MapOf([host |-> Some(S("127.0.0.1")), port |-> Some(I(1883)),
                             tls |-> Some(B(FALSE))]))

\* The profiles sections of the documents: none, falsy, not a mapping, empty,
\* and mappings with string keys, an integer key and entries that are no mapping.
ProfileSections ==
    { NoProfiles,
      [k |-> "scalar", v |-> S("oops"), m |-> EmptyMap],
      Profiles(EmptyMap),
      Profiles([key \in {S("a"), S("b")} |-> IF key = S("a") THEN HostA ELSE HostB]),
      Profiles([key \in {S("a"), S("local")} |-> IF key = S("a") THEN HostA ELSE HostLocal]),
      Profiles([key \in {S("a"), S("b")} |->
                    IF key = S("a") THEN EntryScalar(S("oops")) ELSE HostB]),
      Profiles([key \in {I(1), S("b")} |-> IF key = I(1) THEN HostA ELSE EntryScalar(Null)]) }

\* What an active_profiles or profile list may hold: names, a blank and
\* integers (YAML reads `1` as an integer).
ListItems == {S("a"), S("b"), S("local"), S("zz"), S(""), I(1)}

NoEnv == [x \in {} |-> Unset]
ProfilesEnv(parts) == [x \in {"SIMCITY_MQTT_PROFILES"} |-> EnvVal(parts)]

\* Values of SIMCITY_MQTT_PROFILES: unset, "", "a", " a,,b", "zz,a", ",".
EnvChoices ==
    { NoEnv, ProfilesEnv(<<"">>), ProfilesEnv(<<"a">>), ProfilesEnv(<<" a", "", "b">>),
      ProfilesEnv(<<"zz", "a">>), ProfilesEnv(<<"", "">>) }

\* The environment, the .env file and the document of one load.
Inputs(env, file, d) ==
    /\ environ = env
    /\ dotenv = file
    /\ doc = d

\* The environment override against the file's own selections.
EnvInputs ==
    \E env \in EnvChoices,
       file \in {NoEnv, ProfilesEnv(<<"b">>)},
       active \in {Absent, Li(<<S("a")>>)},
       profile \in {Absent, Sc(S("b"))},
       profiles \in ProfileSections :
        Inputs(env, file, Doc(Mqtt(active, profile, Absent, profiles, EmptyMap), NoSimulation))

\* active_profiles in every shape.
ActiveInputs ==
    \E active \in {Sc(Null), Sc(S("a"))} \cup {Li(l) : l \in SeqsUpTo(ListItems, MaxActive)},
       profile \in {Absent, Sc(S("b"))},
       profiles \in ProfileSections :
        Inputs(NoEnv, NoEnv, Doc(Mqtt(active, profile, Absent, profiles, EmptyMap), NoSimulation))

\* profile and default_profile in every shape, without active_profiles.
ProfileInputs ==
    \E active \in {Absent, Sc(Null)},
       profile \in {Absent, Sc(Null), Sc(S("a")), Sc(S("")), Sc(I(1)), Li(<<>>),
                    Li(<<S("b"), S("a")>>)},
       default \in {Absent, Sc(S("b")), Sc(S(""))},
       profiles \in ProfileSections :
        Inputs(NoEnv, NoEnv, Doc(Mqtt(active, profile, default, profiles, EmptyMap), NoSimulation))

\* Documents that are missing, empty, not a mapping, or whose mqtt is no mapping.
ShapeInputs ==
    \/ \E top \in {"missing", "empty", "scalar", "map"} :
          Inputs(NoEnv, NoEnv, [top |-> top, mqtt |-> EmptyMqtt, simulation |-> NoSimulation])
    \/ \E v \in {Null, S(""), S("oops"), I(0)} :
          Inputs(NoEnv, NoEnv,
                 [top |-> "map", mqtt |-> [EmptyMqtt EXCEPT !.k = "scalar", !.v = v],
                  simulation |-> NoSimulation])

\* Broker settings of every kind, in profile "a" and at the top level.
FieldInputs ==
    \E entry \in [host : {None, Some(Null), Some(S("")), Some(S("a.example.com"))},
                  port : {None, Some(I(0)), Some(I(-1)), Some(I(8883)), Some(I(70000)),
                          Some(S("8883")), Some(S("abc")), Some(F(188350))},
                  keepalive_s : {None, Some(I(0)), Some(I(-5)), Some(I(30))},
                  tls : {None, Some(B(TRUE)), Some(B(FALSE))}],
       common \in [host : {None, Some(S("common.example.com"))},
                   port : {None, Some(I(1884))},
                   keepalive_s : {None, Some(I(45))},
                   tls : {None, Some(B(TRUE))},
                   client_id_prefix : {None, Some(S("demo"))}] :
        Inputs(NoEnv, NoEnv,
               Doc(Mqtt(Li(<<S("a"), S("b")>>), Absent, Absent,
                        Profiles([key \in {S("a"), S("b")} |->
                                    IF key = S("a") THEN EntryMap(MapOf(entry)) ELSE HostB]),
                        MapOf(common)),
                   NoSimulation))

\* Documents without profiles whose only active profile is "local".
LocalInputs ==
    \E active \in {Absent, Li(<<S("local")>>)},
       profile \in {Absent, Sc(S("local"))},
       profiles \in {NoProfiles, Profiles(EmptyMap),
                     [k |-> "scalar", v |-> S(""), m |-> EmptyMap]},
       common \in [host : {None, Some(S("common.example.com"))},
                   port : {None, Some(I(8883)), Some(I(0))},
                   tls : {None, Some(B(TRUE))},
                   keepalive_s : {None, Some(I(45)), Some(S("abc"))},
                   active_profile : {None, Some(S("a"))}] :
        Inputs(NoEnv, NoEnv,
               Doc(Mqtt(active, profile, Absent, profiles, MapOf(common)), NoSimulation))

Simulation(m, movement) ==
    [NoSimulation EXCEPT !.k = "map", !.m = m, !.movement = movement]

MovementSections ==
    { [k |-> "absent", v |-> Null, m |-> EmptyMap],
      [k |-> "scalar", v |-> S("oops"), m |-> EmptyMap] }
    \cup
    { [k |-> "map", v |-> Null, m |-> MapOf(mv)] :
        mv \in [tick_s : {None, Some(I(0)), Some(I(-1)), Some(F(50))},
                total_ticks : {None, Some(I(0)), Some(I(-2)), Some(F(50)), Some(I(10))},
                step_distance_m : {None, Some(I(0)), Some(F(-120)), Some(F(120))},
                max_turn_deg : {None, Some(I(-1)), Some(I(0)), Some(I(180)),
                                Some(F(18001)), Some(I(90))},
                boundary_mode : {None, Some(S(" Bounce ")), Some(S("Wrap"))}] }

SimulationSections ==
    { NoSimulation,
      [NoSimulation EXCEPT !.k = "scalar", !.v = Null],
      [NoSimulation EXCEPT !.k = "scalar", !.v = S("oops")],
      [NoSimulation EXCEPT !.k = "scalar", !.v = S("")] }
    \cup
    { Simulation(MapOf(m), movement) :
        m \in [people_count : {None, Some(I(0)), Some(I(-1)), Some(I(3))}],
        movement \in MovementSections }

\* The timestep and the map bounds of a simulation block, in either order and
\* of either sign, under the default broker.
TunableInputs ==
    \E m \in [timestep_minutes : {None, Some(I(0)), Some(I(-5)), Some(I(30))},
               people_count : {None, Some(I(0))}],
       mp \in [min_x : {None, Some(I(100)), Some(F(-550))},
               max_x : {None, Some(I(0)), Some(I(100))},
               min_y : {None, Some(I(100)), Some(I(7))},
               max_y : {None, Some(I(0)), Some(F(750))}],
       mode \in {None, Some(S("BOUNCE")), Some(Null), Some(I(1))} :
        Inputs(NoEnv, NoEnv,
               Doc(EmptyMqtt,
                   [Simulation(MapOf(m),
                               [k |-> "map", v |-> Null, m |-> MapOf([boundary_mode |-> mode])])
                      EXCEPT !.map = [k |-> "map", v |-> Null, m |-> MapOf(mp)]]))

\* The simulation block in every shape, under brokers that resolve and under a
\* second active profile that does not exist.
SimulationInputs ==
    \E mqtt \in {EmptyMqtt,
                 Mqtt(Li(<<S("a"), S("b")>>), Absent, Absent,
                      Profiles([key \in {S("a"), S("b")} |->
                                    IF key = S("a") THEN HostA ELSE HostB]), EmptyMap),
                 Mqtt(Li(<<S("a"), S("zz")>>), Absent, Absent,
                      Profiles([key \in {S("a")} |-> HostA]), EmptyMap)},
       simulation \in SimulationSections :
        Inputs(NoEnv, NoEnv, Doc(mqtt, simulation))

\* An environment that holds the given credentials, where given.
CredentialsEnv(opt) ==
    [name \in {q \in DOMAIN opt : opt[q] # None} |-> EnvVal(<<opt[name][1]>>)]

\* Brokers that name the environment variables of their credentials, in the
\* profile or among the common settings, under environments and .env files
\* that set them, set them to the empty string or do not set them.
CredentialInputs ==
    \E env \in [MQTT_USER : {None, Some("alice"), Some("")},
                 MQTT_PASS : {None, Some("s3cret")}],
       file \in [MQTT_USER : {None, Some("bob")}],
       entry \in [host : {Some(S("a.example.com"))},
                  username_env : {None, Some(Null), Some(S("")), Some(S("MQTT_USER"))},
                  password_env : {None, Some(S("MQTT_PASS"))}],
       common \in [username_env : {None, Some(S("MQTT_USER"))}] :
        Inputs(CredentialsEnv(env), CredentialsEnv(file),
               Doc(Mqtt(Li(<<S("a"), S("b")>>), Absent, Absent,
                        Profiles([key \in {S("a"), S("b")} |->
                                    IF key = S("a") THEN EntryMap(MapOf(entry)) ELSE HostB]),
                        MapOf(common)),
                   NoSimulation))

\* What simulation.names and simulation.colors may hold: nothing, null, a
\* string, and lists that are empty, all blank, or mixed with blanks, padded
\* strings, a number and a null.
StrListChoices ==
    { Absent, Sc(Null), Sc(S("Al")), Li(<<>>), Li(<<S(" "), S("")>>),
      Li(<<S(" Al "), S(""), S("b")>>), Li(<<I(1), Null, S(" ")>>) }

\* The name and colour lists of a simulation block, under the default broker.
StrListInputs ==
    \E names \in StrListChoices, colors \in StrListChoices :
        Inputs(NoEnv, NoEnv,
               Doc(EmptyMqtt,
                   [Simulation(MapOf([people_count |-> Some(I(3))]),
                               [k |-> "absent", v |-> Null, m |-> EmptyMap])
                      EXCEPT !.names = names, !.colors = colors]))

AllInputs ==
    \/ StrListInputs
    \/ CredentialInputs
    \/ EnvInputs
    \/ ActiveInputs
    \/ ProfileInputs
    \/ ShapeInputs
    \/ FieldInputs
    \/ LocalInputs
    \/ SimulationInputs
    \/ TunableInputs

\* _resolve_default_config_path is not under way.
NoResolve ==
    /\ cwd = <<>>
    /\ package_dir = <<>>
    /\ files = {}
    /\ path = [abs |-> FALSE, parts |-> <<>>]
    /\ phase = "idle"
    /\ to_probe = <<>>
    /\ probed = <<>>
    /\ resolved = None

Init ==
    /\ AllInputs
    /\ NoResolve
    /\ NewConnector
    /\ NoClient
    /\ NoAgents
    /\ pc = "call"
    /\ data = EmptyData
    /\ active_profiles = <<>>
    /\ mqtt_config_dicts = <<>>
    /\ mqtt_configs = <<>>
    /\ primary_mqtt = None
    /\ ret = None
    /\ raised = NoErr

Spec == Init /\ [][Next]_vars

\* load_config and then the construction of a connector.
ClientNext ==
    \/ Next
    \/ MakeConnector

ClientSpec == Init /\ [][ClientNext]_vars

\* load_config is not under way.
NoLoad ==
    /\ environ = NoEnv
    /\ dotenv = NoEnv
    /\ doc = [top |-> "missing", mqtt |-> EmptyMqtt, simulation |-> NoSimulation]
    /\ pc = "idle"
    /\ data = EmptyData
    /\ active_profiles = <<>>
    /\ mqtt_config_dicts = <<>>
    /\ mqtt_configs = <<>>
    /\ primary_mqtt = None
    /\ ret = None
    /\ raised = NoErr
    /\ NoClient

\* The files that may exist: a config.yaml in any directory, one below the
\* notebooks' directory, and one of another name.
FileChoices ==
    { Append(dir, "config.yaml") : dir \in Dirs }
        \cup { <<"proj", "nb", "sub", "config.yaml">>, <<"proj", "other.yaml">> }

\* The path arguments: the default name, the same with a leading "./", another
\* bare name, a nested relative path, and absolute paths.
PathChoices ==
    { [abs |-> FALSE, parts |-> <<"config.yaml">>],
      [abs |-> FALSE, parts |-> <<".", "config.yaml">>],
      [abs |-> FALSE, parts |-> <<"other.yaml">>],
      [abs |-> FALSE, parts |-> <<"sub", "config.yaml">>],
      [abs |-> TRUE, parts |-> <<"proj", "config.yaml">>],
      [abs |-> TRUE, parts |-> <<"site", "config.yaml">>] }

ResolveInit ==
    /\ NoLoad
    /\ NewConnector
    /\ NoAgents
    /\ cwd \in Dirs
    /\ package_dir \in {<<"proj", "src">>, <<"site">>}
    /\ files \in SUBSET FileChoices
    /\ path \in PathChoices
    /\ phase = "call"
    /\ to_probe = <<>>
    /\ probed = <<>>
    /\ resolved = None

\* _resolve_default_config_path on every path, working directory and file system.
ResolveSpec == ResolveInit /\ [][ResolveNext]_vars

MqttInit ==
    /\ NoLoad
    /\ NoResolve
    /\ NewConnector
    /\ NoAgents

\* One MqttConnector, its caller and its transport, in every interleaving.
MqttSpec == MqttInit /\ [][MqttNext]_vars

\* The same where a blocked wait does end: a notified caller wakes up, and the
\* timeout of one that is not notified elapses.
MqttLiveSpec == MqttSpec /\ WF_vars(WaitWake) /\ WF_vars(WaitTimeout)

----------------------------------------------------------------------------
\* The network loop runs whenever it can, and the broker, when reached, accepts
\* the handshake: the loop's reconnection and the accepting CONNACK are not
\* postponed forever, and a refused connection is closed.
MqttHealSpec ==
    /\ MqttSpec
    /\ WF_vars(LoopReconnect(TRUE))
    /\ WF_vars(ConnAck(0))
    /\ WF_vars(Drop /\ sock = "rejected")

\* A caller blocked in wait_for_publish runs again once it can.
MqttPublishSpec == MqttSpec /\ WF_vars(WaitForPublish)

(* routing.py: the mode transition guards and a controller that applies    *)
(* them to the weather it is told.                                         *)

\* How many weather reports and control ticks a controller is followed for.
MaxTicks == 4

\* The weather states and the modes a controller may be given, in several
\* spellings.
WeatherStates == {"rain", " Rain ", "sunny", "SUNNY", "cloudy", ""}
ModeNames == {"random_walk", "RANDOM_WALK", "move_to_shop", " Move_To_Shop ", "idle"}

\* Mutant: the guard compares the texts as they are given.
ShouldEnterShelterModeRaw(weather_state, current_mode) ==
    weather_state = "rain" /\ current_mode # "move_to_shop"

\* should_enter_shelter_mode (line 65)
ShouldEnterShelterMode(weather_state, current_mode) ==
    Lower(Strip(weather_state)) = "rain" /\ Lower(Strip(current_mode)) # "move_to_shop"

\* should_enter_random_walk_mode (line 70)
ShouldEnterRandomWalkMode(weather_state, current_mode) ==
    Lower(Strip(weather_state)) = "sunny" /\ Lower(Strip(current_mode)) # "random_walk"

\* The controller is told the weather; the count of mode changes starts again
\* when the weather is another one than before.
WeatherReport(weather_state) ==
    /\ controller.tick < MaxTicks
    /\ controller' =
          [controller EXCEPT
              !.weather_state = weather_state,
              !.transitions =
                  IF Lower(Strip(weather_state)) = Lower(Strip(controller.weather_state))
                    THEN @ ELSE 0,
              !.tick = @ + 1]
    /\ UNCHANGED <<trip, walker>>
    /\ UNCHANGED <<configVars, pathVars, mqttVars, clientVars>>

\* One control tick: the controller evaluates the two guards on the weather it
\* last saw and adopts the mode of the one that is true (the normalized mode
\* names of build_move_command, line 37).
ControlTick ==
    /\ controller.tick < MaxTicks
    /\ controller' =
          CASE ShouldEnterShelterMode(controller.weather_state, controller.current_mode) ->
                  [controller EXCEPT !.current_mode = "move_to_shop",
                                     !.transitions = @ + 1, !.tick = @ + 1]
            [] ShouldEnterRandomWalkMode(controller.weather_state, controller.current_mode) ->
                  [controller EXCEPT !.current_mode = "random_walk",
                                     !.transitions = @ + 1, !.tick = @ + 1]
            [] OTHER -> [controller EXCEPT !.tick = @ + 1]
    /\ UNCHANGED <<trip, walker>>
    /\ UNCHANGED <<configVars, pathVars, mqttVars, clientVars>>

ControlNext ==
    \/ \E weather_state \in WeatherStates : WeatherReport(weather_state)
    \/ ControlTick

ControlInit ==
    /\ NoLoad
    /\ NoResolve
    /\ NewConnector
    /\ NoTrip
    /\ NoWalker
    /\ \E weather_state \in WeatherStates, current_mode \in ModeNames :
          controller = [weather_state |-> weather_state, current_mode |-> current_mode,
                        transitions |-> 0, tick |-> 0]

\* A controller under every sequence of weather reports and control ticks.
ControlSpec == ControlInit /\ [][ControlNext]_vars

----------------------------------------------------------------------------

(* Python floats, as far as routing.py and movement.py depend on their     *)
(* rounding.  A float of the model is a whole number, or a value so near    *)
(* zero that adding it to a whole number other than zero is lost in the     *)
(* rounding (such as 1e-17 or -1e-18); it is held as [whole, tiny], tiny    *)
(* being the sign of that value, and tiny is 0 unless whole is 0.           *)

Whole(d) == [whole |-> d, tiny |-> 0]
Tiny(e) == [whole |-> 0, tiny |-> e]

Sign(n) == IF n > 0 THEN 1 ELSE IF n < 0 THEN -1 ELSE 0

\* a + b: next to a whole number other than zero a tiny value is rounded away.
FloatAdd(a, b) ==
    IF a.whole + b.whole # 0 THEN Whole(a.whole + b.whole)
    ELSE IF a.whole = 0 THEN Tiny(Sign(a.tiny + b.tiny))
    ELSE Whole(0)

\* -a
FloatNeg(a) == [whole |-> -a.whole, tiny |-> -a.tiny]

\* a % 360.0 on floats: Python adds 360.0 to a negative remainder, and
\* 360.0 - 1e-18 rounds to 360.0.
FloatMod360(a) ==
    IF a.tiny = 0 THEN Whole(a.whole % 360)
    ELSE IF a.tiny > 0 THEN a
    ELSE Whole(360)

\* a <= b
FloatLeq(a, b) == a.whole < b.whole \/ (a.whole = b.whole /\ a.tiny <= b.tiny)

----------------------------------------------------------------------------

(* routing.py: step_toward_target.  Coordinates are whole numbers of one    *)
(* length unit; the walks of the model run along directions whose lengths   *)
(* are whole (the axes and the 3-4-5 triangles).  A step distance is a      *)
(* multiple of the direction's length, so that every quotient of the code   *)
(* is exact, or a tiny value such as 1e-17.                                 *)

\* The longest walk, in direction lengths.
MaxSpan == 3

\* The directions of the walks: the displacement (a, b) and its length c.
Directions ==
    { [a |-> 1, b |-> 0, c |-> 1], [a |-> 0, b |-> -1, c |-> 1],
      [a |-> 3, b |-> 4, c |-> 5], [a |-> -4, b |-> 3, c |-> 5],
      [a |-> 4, b |-> -3, c |-> 5], [a |-> -3, b |-> -4, c |-> 5] }

Abs(n) == IF n < 0 THEN -n ELSE n

\* math.hypot(dx, dy), on the displacements whose length is whole.
Hypot(dx, dy) == CHOOSE d \in 0..(Abs(dx) + Abs(dy)) : d * d = dx * dx + dy * dy

\* Mutant: the target is reached only when it is nearer than one step.
StepTowardTargetStrict(x, y, target_x, target_y, step_distance) ==
    IF FloatLeq(step_distance, Whole(0))
      THEN [x |-> x, y |-> y, arrived |-> FALSE, raised |-> "ValueError"]
      ELSE LET dx == target_x - x
               dy == target_y - y
               distance == Hypot(dx, dy)
           IN  IF FloatLeq(Whole(distance), step_distance) /\ Whole(distance) # step_distance
                 THEN [x |-> target_x, y |-> target_y, arrived |-> TRUE, raised |-> "none"]
                 ELSE IF step_distance.whole # 0
                   THEN [x |-> x + (dx * step_distance.whole) \div distance,
                         y |-> y + (dy * step_distance.whole) \div distance,
                         arrived |-> FALSE, raised |-> "none"]
                   ELSE [x |-> x, y |-> y, arrived |-> FALSE, raised |-> "none"]

\* step_toward_target (lines 82-91): the new position and whether the target
\* was reached, or the ValueError.  With a tiny step distance dx * ratio and
\* dy * ratio are tiny or zero, and x + dx * ratio rounds to x; the walks of the
\* model that take such steps start where neither coordinate is zero.
StepTowardTarget(x, y, target_x, target_y, step_distance) ==
    IF FloatLeq(step_distance, Whole(0))
      THEN [x |-> x, y |-> y, arrived |-> FALSE, raised |-> "ValueError"]
      ELSE LET dx == target_x - x
               dy == target_y - y
               distance == Hypot(dx, dy)
           IN  IF FloatLeq(Whole(distance), step_distance)
                 THEN [x |-> target_x, y |-> target_y, arrived |-> TRUE, raised |-> "none"]
                 ELSE IF step_distance.whole # 0
                   THEN [x |-> x + (dx * step_distance.whole) \div distance,
                         y |-> y + (dy * step_distance.whole) \div distance,
                         arrived |-> FALSE, raised |-> "none"]
                   ELSE [x |-> x, y |-> y, arrived |-> FALSE, raised |-> "none"]

\* The walker calls step_toward_target from where it is, until it has arrived
\* or the call has raised; it is followed for one call more than the longest
\* walk has direction lengths.
Step ==
    /\ ~trip.arrived
    /\ trip.raised = "none"
    /\ trip.steps <= MaxSpan
    /\ LET out == StepTowardTarget(trip.x, trip.y, trip.target_x, trip.target_y,
                                   trip.step_distance)
       IN  trip' = [trip EXCEPT !.x = out.x, !.y = out.y, !.arrived = out.arrived,
                                !.raised = out.raised, !.steps = @ + 1]
    /\ UNCHANGED <<controller, walker>>
    /\ UNCHANGED <<configVars, pathVars, mqttVars, clientVars>>

\* The step distances of a walk along a direction of length c: negative, zero,
\* one and two direction lengths, and, away from the axes of the map, 1e-17
\* and -1e-17.
StepDistances(start, c) ==
    {Whole(factor * c) : factor \in {-1, 0, 1, 2}}
        \cup (IF start[1] # 0 /\ start[2] # 0 THEN {Tiny(1), Tiny(-1)} ELSE {})

\* Walks from two starts along every direction, of every length up to MaxSpan.
StepInit ==
    /\ NoLoad
    /\ NoResolve
    /\ NewConnector
    /\ NoController
    /\ NoWalker
    /\ \E start \in {<<0, 0>>, <<-3, 7>>}, dir \in Directions, span \in 0..MaxSpan :
          \E step_distance \in StepDistances(start, dir.c) :
             trip = [x |-> start[1], y |-> start[2],
                     target_x |-> start[1] + span * dir.a,
                     target_y |-> start[2] + span * dir.b,
                     step_distance |-> step_distance,
                     arrived |-> FALSE, raised |-> "none", steps |-> 0]

\* step_toward_target applied again and again; a walker that can step does.
StepSpec == StepInit /\ [][Step]_vars /\ WF_vars(Step)

----------------------------------------------------------------------------

(* movement.py: random_walk_step and apply_boundary_bounce.  Positions are  *)
(* whole numbers of one length unit.  A heading is a float in degrees: a    *)
(* whole number, or a tiny value such as 1e-18 or -1e-18.                   *)

\* The most steps a walker is followed for.
MaxMoves == 2

\* The maps: normalized bounds, one with negative coordinates and one that is
\* a segment.
Areas ==
    { [min_x |-> 0, max_x |-> 4, min_y |-> 0, max_y |-> 3],
      [min_x |-> -2, max_x |-> 1, min_y |-> -1, max_y |-> 1],
      [min_x |-> 2, max_x |-> 2, min_y |-> 0, max_y |-> 2] }

\* The headings a walker may be given, and the turns rng.uniform may draw.
Headings == {Whole(-90), Whole(0), Whole(45), Whole(360), Whole(765), Tiny(1), Tiny(-1)}
Turns == {Whole(-45), Whole(0), Whole(90), Tiny(-1)}

\* apply_boundary_bounce (lines 39-57)
ApplyBoundaryBounce(x, y, heading_deg, min_x, max_x, min_y, max_y) ==
    LET h0 == FloatMod360(heading_deg)
        new_x == IF x < min_x THEN min_x + (min_x - x)
                 ELSE IF x > max_x THEN max_x - (x - max_x) ELSE x
        h1 == IF x < min_x \/ x > max_x
                THEN FloatMod360(FloatAdd(Whole(180), FloatNeg(h0)))
                ELSE h0
        new_y == IF y < min_y THEN min_y + (min_y - y)
                 ELSE IF y > max_y THEN max_y - (y - max_y) ELSE y
        h2 == IF y < min_y \/ y > max_y THEN FloatMod360(FloatNeg(h1)) ELSE h1
    IN  [x |-> new_x, y |-> new_y, heading_deg |-> h2]

\* random_walk_step (lines 21-26): the heading turns by what the generator
\* draws and the position moves by step_distance along it.  The displacement
\* step_distance * (cos, sin) is taken to be any whole vector that is, on each
\* axis, no longer than the map's extent on that axis.
RandomWalkStep(ddx, ddy, turn_delta) ==
    /\ walker.phase = "bounced"
    /\ walker.moves < MaxMoves
    /\ Abs(ddx) <= walker.max_x - walker.min_x
    /\ Abs(ddy) <= walker.max_y - walker.min_y
    /\ walker' = [walker EXCEPT !.x = @ + ddx, !.y = @ + ddy,
                                !.heading_deg = FloatMod360(FloatAdd(@, turn_delta)),
                                !.phase = "stepped", !.moves = @ + 1]
    /\ UNCHANGED <<controller, trip>>
    /\ UNCHANGED <<configVars, pathVars, mqttVars, clientVars>>

\* apply_boundary_bounce on the position and heading the step has left.
Bounce ==
    /\ walker.phase = "stepped"
    /\ LET out == ApplyBoundaryBounce(walker.x, walker.y, walker.heading_deg, walker.min_x,
                                      walker.max_x, walker.min_y, walker.max_y)
       IN  walker' = [walker EXCEPT !.x = out.x, !.y = out.y,
                                    !.heading_deg = out.heading_deg, !.phase = "bounced"]
    /\ UNCHANGED <<controller, trip>>
    /\ UNCHANGED <<configVars, pathVars, mqttVars, clientVars>>

WalkNext ==
    \/ \E ddx \in -4..4, ddy \in -3..3, turn_delta \in Turns : RandomWalkStep(ddx, ddy, turn_delta)
    \/ Bounce

\* A position inside the map or outside it by no more than the map's extent,
\* with any heading, on which apply_boundary_bounce is about to be called.
WalkInit ==
    /\ NoLoad
    /\ NoResolve
    /\ NewConnector
    /\ NoController
    /\ NoTrip
    /\ \E area \in Areas, heading_deg \in Headings :
          \E x \in (2 * area.min_x - area.max_x)..(2 * area.max_x - area.min_x),
             y \in (2 * area.min_y - area.max_y)..(2 * area.max_y - area.min_y) :
             walker = [x |-> x, y |-> y, heading_deg |-> heading_deg,
                       min_x |-> area.min_x, max_x |-> area.max_x,
                       min_y |-> area.min_y, max_y |-> area.max_y,
                       phase |-> "stepped", moves |-> 0]

\* A walker that steps and bounces in turn.
WalkSpec == WalkInit /\ [][WalkNext]_vars

----------------------------------------------------------------------------
(* The claims.  They are stated on the document and the environment as     *)
(* load_config finds them, not on the operators above.                     *)

Returned == pc = "done"
Failed == raised # NoErr
\* load_config has ended in one way or the other.
Ended == Returned \/ Failed
\* _get_active_profiles has returned: active_profiles holds the active list.
Resolved == pc \in {"profiles", "build", "sim", "done"}

RECURSIVE FirstOccurrences(_, _)
FirstOccurrences(l, seen) ==
    IF l = <<>> THEN <<>>
    ELSE IF Head(l) \in seen THEN FirstOccurrences(Tail(l), seen)
    ELSE <<Head(l)>> \o FirstOccurrences(Tail(l), seen \cup {Head(l)})

\* The keys of the document's mqtt.profiles mapping (none when it has no mapping).
ProfileKeys == IF data.mqtt.profiles.k = "map" THEN DOMAIN data.mqtt.profiles.m ELSE {}

\* mqtt.profiles is a mapping, or is missing (null or another falsy value).
ProfilesWellShaped ==
    data.mqtt.profiles.k \in {"map", "absent"}
        \/ (data.mqtt.profiles.k = "scalar" /\ ~Truthy(data.mqtt.profiles.v))

\* C1: whenever load_config returns an AppConfig, mqtt_configs is non-empty and the
\* primary broker is the first-inserted value of mqtt_configs; an empty active
\* list never returns.
C1_PrimaryIsFirstInserted ==
    /\ ret # None =>
          /\ Len(ret[1].mqtt_configs) > 0
          /\ ret[1].mqtt = ret[1].mqtt_configs[1].val
    /\ (Resolved /\ active_profiles = <<>>) => (ret = None /\ ~Returned)
    /\ (pc = "build" /\ Failed /\ active_profiles = <<>>) => raised.kind = "no_active"

\* A load returned two different brokers.
C1_Witness ==
    /\ ret # None
    /\ Len(ret[1].mqtt_configs) = 2
    /\ ret[1].mqtt_configs[1].val # ret[1].mqtt_configs[2].val

\* What the claim C2 says the active list is: the first source that is present
\* decides alone.
FirstPresentSource ==
    LET env_profiles == Getenv(environ, "SIMCITY_MQTT_PROFILES")
        active == data.mqtt.active_profiles
        profile == data.mqtt.profile
    IN  IF data.mqtt.k # "map" THEN <<"local">>
        ELSE IF env_profiles.set /\ env_profiles.parts # <<"">>
          THEN StripNonBlank(env_profiles.parts)
        ELSE IF ~IsNone(active) THEN StrTruthy(active.l)
        ELSE IF ~IsNone(profile)
          THEN IF profile.k = "list" THEN StrTruthy(profile.l) ELSE <<PyStr(profile.v)>>
        ELSE <<"local">>

\* C2: the active profile list comes from the first source that is present (the
\* environment override, else active_profiles, else profile, else 'local'), and a
\* present source never falls through to a lower one.
C2_FirstPresentSourceDecides == Resolved => active_profiles = FirstPresentSource

\* The active names, and whether each is a key of mqtt.profiles.
ActiveIndex == 1..Len(active_profiles)
KnownAt(j) == S(active_profiles[j]) \in ProfileKeys
\* 'local' stands for the built-in defaults when no profile is defined at all.
LocalDefaultAt(j) == active_profiles[j] = "local" /\ ProfileKeys = {}
\* The entry of an active profile that is a key of mqtt.profiles.
EntryAt(j) == data.mqtt.profiles.m[S(active_profiles[j])]
\* The entry is neither a mapping nor null (nor another falsy value).
BadEntryAt(j) == KnownAt(j) /\ EntryAt(j).k # "map" /\ Truthy(EntryAt(j).v)

\* C3: when every active profile is a key of mqtt.profiles, the returned mapping
\* has exactly the active names as keys, in activation order, the primary broker
\* is the first active profile's, and each name maps to the broker with its own
\* profile's host; such a load fails only for a reason other than the profile
\* names (an entry that is no mapping, a value that does not convert, the
\* simulation block).
C3_ActivationOrder ==
    (Resolved /\ active_profiles # <<>> /\ \A j \in ActiveIndex : KnownAt(j)) =>
        /\ Returned =>
              /\ Keys(ret[1].mqtt_configs) = FirstOccurrences(active_profiles, {})
              /\ ret[1].mqtt = Lookup(ret[1].mqtt_configs, active_profiles[1])
              /\ \A j \in ActiveIndex :
                    (/\ EntryAt(j).k = "map"
                     /\ "host" \in DOMAIN EntryAt(j).m
                     /\ EntryAt(j).m["host"].t = "str"
                     /\ EntryAt(j).m["host"].s # "")
                    => Lookup(ret[1].mqtt_configs, active_profiles[j]).host
                            = EntryAt(j).m["host"].s
        /\ Failed =>
              \/ pc = "profiles" /\ raised.kind = "shape" /\ \E j \in ActiveIndex : BadEntryAt(j)
              \/ pc = "build" /\ raised.kind = "coerce"
              \/ pc = "sim"
        /\ (pc = "build" /\ Len(mqtt_configs) = Len(mqtt_config_dicts)) => ~Failed

\* Two different active profiles, both defined, were returned with their own hosts.
C3_Witness ==
    /\ Returned
    /\ Len(active_profiles) = 2
    /\ active_profiles[1] # active_profiles[2]
    /\ \A j \in ActiveIndex : KnownAt(j)
    /\ ret[1].mqtt.host # ret[1].mqtt_configs[2].val.host

\* Where a string stands in Python's string order, among the strings of NameOrder.
Rank(x) == CHOOSE j \in 1..Len(NameOrder) : NameOrder[j] = x

\* avail lists str(key) for every key of keys, once per key, in ascending order.
IsSortedListing(avail, keys) ==
    /\ Len(avail) = Cardinality(keys)
    /\ \A key \in keys :
          Cardinality({j \in 1..Len(avail) : avail[j] = PyStr(key)})
              = Cardinality({other \in keys : PyStr(other) = PyStr(key)})
    /\ \A i, j \in 1..Len(avail) : i < j => Rank(avail[i]) <= Rank(avail[j])

\* load_config has gone past _load_mqtt_configs or has raised in it.
PastProfileLookup == Resolved /\ (pc # "profiles" \/ Failed)

\* C4 as claimed: an active name that is not a key of mqtt.profiles always makes
\* load_config fail with the error that enumerates the available names, sorted.
C4_UnknownProfileAlwaysFails ==
    (PastProfileLookup /\ ProfilesWellShaped /\ \E j \in ActiveIndex : ~KnownAt(j)) =>
        /\ pc = "profiles"
        /\ raised.kind = "unknown_profile"
        /\ IsSortedListing(raised.avail, ProfileKeys)
        /\ ret = None

\* The first active profile that _load_mqtt_configs cannot select.
FirstOffender ==
    CHOOSE j \in ActiveIndex :
        /\ (~KnownAt(j) /\ ~LocalDefaultAt(j)) \/ BadEntryAt(j)
        /\ \A h \in 1..(j - 1) : (KnownAt(h) \/ LocalDefaultAt(h)) /\ ~BadEntryAt(h)

\* C4, amended: an active name that is not a key of mqtt.profiles, other than
\* 'local' when no profile is defined at all, makes load_config fail in
\* _load_mqtt_configs and return nothing, wherever the name stands; the error is
\* the one of the first active profile that cannot be selected: it names the
\* unknown profile and enumerates the available names, sorted, unless an earlier
\* active profile's entry is not a mapping, which is reported instead.
C4_UnknownProfileFails ==
    (/\ PastProfileLookup
     /\ ProfilesWellShaped
     /\ \E j \in ActiveIndex : ~KnownAt(j) /\ ~LocalDefaultAt(j)) =>
        /\ pc = "profiles"
        /\ Failed
        /\ ret = None
        /\ IF KnownAt(FirstOffender)
             THEN /\ raised.kind = "shape"
                  /\ raised.key = "mqtt.profiles." \o active_profiles[FirstOffender]
             ELSE /\ raised.kind = "unknown_profile"
                  /\ raised.key = active_profiles[FirstOffender]
                  /\ IsSortedListing(raised.avail, ProfileKeys)

\* The unknown name stands second, after a profile that exists, and the error
\* lists the available names.
C4_Witness ==
    /\ Failed
    /\ raised.kind = "unknown_profile"
    /\ Len(active_profiles) = 2
    /\ KnownAt(1)
    /\ raised.key = active_profiles[2]
    /\ Len(raised.avail) = 2

SelectedAt(j) ==
    IF LocalDefaultAt(j) THEN LocalDefaults
    ELSE IF EntryAt(j).k = "map" THEN EntryAt(j).m
    ELSE EmptyMap

\* The value the document gives to a broker key of the j-th active profile: the
\* profile's if the profile defines the key, else the top-level one; <<>> if
\* neither defines it.
GivenAt(j, key) ==
    IF key \in DOMAIN SelectedAt(j) THEN <<SelectedAt(j)[key]>>
    ELSE IF key \in DOMAIN data.mqtt.other \ ManagementKeys THEN <<data.mqtt.other[key]>>
    ELSE <<>>

\* The broker returned for the j-th active profile.
BrokerAt(j) == Lookup(ret[1].mqtt_configs, active_profiles[j])

\* The same, a null value counting as no definition at all.
DefinedAt(j, key) ==
    IF key \in DOMAIN SelectedAt(j) /\ SelectedAt(j)[key].t # "null"
      THEN <<SelectedAt(j)[key]>>
    ELSE IF key \in DOMAIN data.mqtt.other \ ManagementKeys /\ data.mqtt.other[key].t # "null"
      THEN <<data.mqtt.other[key]>>
    ELSE <<>>

\* C6 as claimed: every broker field is the profile's value for the key if the
\* profile defines it, else the top-level value, else the documented default.
C6_ProfileValueAlwaysWins ==
    Returned =>
        \A j \in ActiveIndex :
            /\ BrokerAt(j).host =
                  (IF DefinedAt(j, "host") = <<>> THEN "localhost"
                   ELSE PyStr(DefinedAt(j, "host")[1]))
            /\ BrokerAt(j).port =
                  (IF DefinedAt(j, "port") = <<>> THEN 1883
                   ELSE ToInt(DefinedAt(j, "port")[1]).val)
            /\ BrokerAt(j).tls =
                  (IF DefinedAt(j, "tls") = <<>> THEN FALSE
                   ELSE Truthy(DefinedAt(j, "tls")[1]))
            /\ BrokerAt(j).keepalive_s =
                  (IF DefinedAt(j, "keepalive_s") = <<>> THEN 60
                   ELSE ToInt(DefinedAt(j, "keepalive_s")[1]).val)
            /\ BrokerAt(j).client_id_prefix =
                  (IF DefinedAt(j, "client_id_prefix") = <<>> THEN "simcity"
                   ELSE PyStr(DefinedAt(j, "client_id_prefix")[1]))

\* The given value, or the default when none is given or the given one is falsy
\* (null, 0, '', false).
EffectiveAt(j, key, default) ==
    IF GivenAt(j, key) = <<>> THEN default
    ELSE IF ~Truthy(GivenAt(j, key)[1]) THEN default
    ELSE GivenAt(j, key)[1]

\* C6, amended: every broker field is built from the profile's value for the key
\* if the profile defines it, else from the top-level value; when that value is
\* missing or falsy (null, 0, '', false) the documented default stands in, even
\* if the top level gives another value.  The profile-selection keys are never
\* among the settings merged into a profile, and the top-level settings reach
\* every active profile.
C6_MergedOrDefault ==
    /\ Returned =>
          \A j \in ActiveIndex :
              /\ BrokerAt(j).host = PyStr(EffectiveAt(j, "host", S("localhost")))
              /\ BrokerAt(j).port = ToInt(EffectiveAt(j, "port", I(1883))).val
              /\ BrokerAt(j).tls = Truthy(EffectiveAt(j, "tls", B(FALSE)))
              /\ BrokerAt(j).keepalive_s = ToInt(EffectiveAt(j, "keepalive_s", I(60))).val
              /\ BrokerAt(j).client_id_prefix
                    = PyStr(EffectiveAt(j, "client_id_prefix", S("simcity")))
              /\ BrokerAt(j).base_topic
                    = PyStr(EffectiveAt(j, "base_topic", S("simulated-city")))
    /\ pc \in {"build", "sim", "done"} =>
          \A j \in ActiveIndex :
              LET merged == Lookup(mqtt_config_dicts, active_profiles[j])
              IN  /\ DOMAIN merged \cap ManagementKeys \subseteq DOMAIN SelectedAt(j)
                  /\ DOMAIN data.mqtt.other \ ManagementKeys \subseteq DOMAIN merged

\* A profile that sets port 0 under a top-level port came back with the default
\* port, next to a second profile that took the top-level port.
C6_Witness ==
    /\ Returned
    /\ Len(active_profiles) = 2
    /\ GivenAt(1, "port") = <<I(0)>>
    /\ "port" \in DOMAIN data.mqtt.other
    /\ BrokerAt(1).port = 1883
    /\ BrokerAt(2).port = data.mqtt.other["port"].i

\* C7 as claimed: every broker of a returned AppConfig has a port within
\* 1..65535 and a strictly positive keepalive interval.
C7_PortAndKeepaliveInRange ==
    ret # None =>
        \A j \in 1..Len(ret[1].mqtt_configs) :
            /\ ret[1].mqtt_configs[j].val.port >= 1
            /\ ret[1].mqtt_configs[j].val.port <= 65535
            /\ ret[1].mqtt_configs[j].val.keepalive_s > 0

\* The simulation node of the document is absent or null.
SimulationIsNone ==
    data.simulation.k = "absent" \/ (data.simulation.k = "scalar" /\ data.simulation.v.t = "null")

\* C8: load_config is all-or-nothing.  Whatever it returns is complete: it is
\* returned without an error, it holds a broker for every active profile, in
\* activation order, all the brokers that were built, and the parsed simulation
\* block whenever the document has one.  Whenever it fails, however late, it
\* returns nothing.
C8_AllOrNothing ==
    /\ ret # None =>
          /\ Returned
          /\ ~Failed
          /\ Keys(ret[1].mqtt_configs) = FirstOccurrences(active_profiles, {})
          /\ ret[1].mqtt_configs = mqtt_configs
          /\ Len(ret[1].mqtt_configs) = Len(mqtt_config_dicts)
          /\ ~SimulationIsNone => ret[1].simulation # None
    /\ Failed => ret = None /\ ~Returned
    /\ Returned => ret # None

\* A range check of the simulation block failed after both brokers were built.
C8_Witness ==
    /\ Failed
    /\ pc = "sim"
    /\ raised.kind = "range"
    /\ Len(mqtt_configs) = 2
    /\ ret = None

\* The simulation node of the document is a mapping without any key.
SimulationIsEmptyMapping ==
    /\ data.simulation.k = "map"
    /\ data.simulation.m = EmptyMap
    /\ data.simulation.movement.k = "absent"
    /\ data.simulation.map.k = "absent"
    /\ data.simulation.names.k = "absent"
    /\ data.simulation.colors.k = "absent"
    /\ data.simulation.locations.k = "absent"

\* load_config has parsed the simulation block: it has returned or raised there.
PastSimulation == pc = "done" \/ (pc = "sim" /\ Failed)

\* C9 as claimed: when the simulation block is absent, null or an empty mapping,
\* load_config succeeds and AppConfig.simulation is None.
C9_EmptySimulationIsNone ==
    (PastSimulation /\ (SimulationIsNone \/ SimulationIsEmptyMapping)) =>
        Returned /\ ret[1].simulation = None

\* The value the document gives to a key of simulation.movement, or the default.
MovementValue(key, default) ==
    IF data.simulation.movement.k = "map" /\ key \in DOMAIN data.simulation.movement.m
      THEN data.simulation.movement.m[key]
      ELSE default

\* The dotted keys whose value breaks its range, in the order load_config checks
\* them; the integer keys are read through int().
OffendingKeys ==
    LET people_count == GetDef(data.simulation.m, "people_count", I(5))
        tick_s == MovementValue("tick_s", F(100))
        total_ticks == MovementValue("total_ticks", I(20))
        step_distance_m == MovementValue("step_distance_m", F(120))
        max_turn_deg == MovementValue("max_turn_deg", F(4500))
    IN  (IF ToInt(people_count).val <= 0 THEN <<"simulation.people_count">> ELSE <<>>)
        \o (IF ToFloat(tick_s).val <= 0 THEN <<"simulation.movement.tick_s">> ELSE <<>>)
        \o (IF ToInt(total_ticks).val <= 0
              THEN <<"simulation.movement.total_ticks">> ELSE <<>>)
        \o (IF ToFloat(step_distance_m).val <= 0
              THEN <<"simulation.movement.step_distance_m">> ELSE <<>>)
        \o (IF ToFloat(max_turn_deg).val < 0 \/ ToFloat(max_turn_deg).val > 18000
              THEN <<"simulation.movement.max_turn_deg">> ELSE <<>>)

\* C10: when a simulation mapping gives people_count, movement.tick_s,
\* movement.total_ticks or movement.step_distance_m a value <= 0 (0 included), or
\* movement.max_turn_deg a value outside [0, 180], load_config fails with the
\* range error that names the first such key in checking order, and returns
\* nothing; when no key offends no range error is raised, and max_turn_deg 0 and
\* 180 are never reported.
C10_RangeErrorsNameTheKey ==
    (PastSimulation /\ data.simulation.k = "map") =>
        /\ OffendingKeys # <<>> =>
              /\ Failed
              /\ ret = None
              /\ raised.kind = "range"
              /\ raised.key = OffendingKeys[1]
        /\ OffendingKeys = <<>> => raised.kind # "range"
        /\ MovementValue("max_turn_deg", F(4500)) \in {I(0), I(180)} =>
              raised.key # "simulation.movement.max_turn_deg"

\* step_distance_m 0 was rejected under its own key, ahead of a max_turn_deg
\* that is out of range as well.
C10_Witness ==
    /\ Failed
    /\ pc = "sim"
    /\ raised.kind = "range"
    /\ raised.key = "simulation.movement.step_distance_m"
    /\ MovementValue("step_distance_m", F(120)) = I(0)
    /\ MovementValue("max_turn_deg", F(4500)) = F(18001)

\* load_config has returned an AppConfig with a SimulationConfig.
ReturnedSimulation == Returned /\ ret[1].simulation # None

\* C11 as claimed: every returned SimulationConfig has strictly positive
\* timestep_minutes, people_count, movement.tick_s, movement.total_ticks and
\* movement.step_distance_m.
C11_PositiveTunables ==
    ReturnedSimulation =>
        /\ ret[1].simulation[1].timestep_minutes > 0
        /\ ret[1].simulation[1].people_count > 0
        /\ ret[1].simulation[1].movement.tick_s > 0
        /\ ret[1].simulation[1].movement.total_ticks > 0
        /\ ret[1].simulation[1].movement.step_distance_m > 0

\* The document configures simulation.movement.boundary_mode.
ModeConfigured ==
    /\ data.simulation.k = "map"
    /\ data.simulation.movement.k = "map"
    /\ "boundary_mode" \in DOMAIN data.simulation.movement.m

\* C12 as claimed: a returned SimulationConfig has boundary_mode 'bounce', and
\* any configured boundary_mode other than the literal 'bounce' makes
\* load_config fail.
C12_LiteralBounceOnly ==
    /\ ReturnedSimulation => ret[1].simulation[1].movement.boundary_mode = "bounce"
    /\ (PastSimulation /\ ModeConfigured
            /\ MovementValue("boundary_mode", S("bounce")) # S("bounce")) => Failed

\* The strings that differ from 'bounce' by letter case and surrounding blanks
\* only, among those the documents configure.
BounceSpellings == {S("bounce"), S(" Bounce "), S("BOUNCE")}

\* C12, amended: a returned SimulationConfig has boundary_mode 'bounce'; a
\* configured boundary_mode fails load_config, which then returns nothing,
\* unless its text is 'bounce' up to letter case and surrounding whitespace; such
\* a spelling is accepted and stored as 'bounce', and no other mode (a null and
\* a number included) is ever accepted.
C12_BounceUpToCaseAndBlanks ==
    /\ ReturnedSimulation => ret[1].simulation[1].movement.boundary_mode = "bounce"
    /\ (PastSimulation /\ ModeConfigured
            /\ MovementValue("boundary_mode", S("bounce")) \notin BounceSpellings) =>
          Failed /\ ret = None
    /\ (PastSimulation /\ ModeConfigured /\ OffendingKeys = <<>>
            /\ MovementValue("boundary_mode", S("bounce")) \notin BounceSpellings) =>
          raised = Err("value", "simulation.movement.boundary_mode")
    /\ (PastSimulation /\ ModeConfigured
            /\ MovementValue("boundary_mode", S("bounce")) \in BounceSpellings) =>
          raised.kind # "value"

\* The mode 'Wrap' was refused on its own account, every range being in order.
C12_Witness ==
    /\ Failed
    /\ pc = "sim"
    /\ raised = Err("value", "simulation.movement.boundary_mode")
    /\ MovementValue("boundary_mode", S("bounce")) = S("Wrap")
    /\ OffendingKeys = <<>>

\* The value the document gives to a key of simulation.map, or the default, as
\* float() reads it (in hundredths).
MapValue(key, default) ==
    IF data.simulation.map.k = "map" /\ key \in DOMAIN data.simulation.map.m
      THEN ToFloat(data.simulation.map.m[key]).val
      ELSE default

\* lo, hi are a, b in ascending order: swapped exactly when a > b.
IsNormalized(lo, hi, a, b) ==
    /\ lo <= hi
    /\ a <= b => <<lo, hi>> = <<a, b>>
    /\ a > b => <<lo, hi>> = <<b, a>>
    /\ NormalizeBounds(lo, hi) = <<lo, hi>>

\* C13: on each axis the returned MapConfig has min <= max and holds the two
\* values the document gives (the default for a bound it does not give),
\* swapped exactly when the document has min > max and untouched otherwise;
\* normalizing the returned bounds again changes nothing.
C13_MapBoundsNormalized ==
    ReturnedSimulation =>
        /\ IsNormalized(ret[1].simulation[1].map.min_x, ret[1].simulation[1].map.max_x,
                        MapValue("min_x", 0), MapValue("max_x", 10000))
        /\ IsNormalized(ret[1].simulation[1].map.min_y, ret[1].simulation[1].map.max_y,
                        MapValue("min_y", 0), MapValue("max_y", 10000))

\* min_x = 100 with max_x = 0 came back as 0 and 100, and likewise for y.
C13_Witness ==
    /\ ReturnedSimulation
    /\ MapValue("min_x", 0) = 10000 /\ MapValue("max_x", 10000) = 0
    /\ MapValue("min_y", 0) = 10000 /\ MapValue("max_y", 10000) = 0
    /\ ret[1].simulation[1].map
          = [min_x |-> 0, max_x |-> 10000, min_y |-> 0, max_y |-> 10000]

\* dir is a proper ancestor of the working directory.
IsAncestor(dir) == Len(dir) < Len(cwd) /\ SubSeq(cwd, 1, Len(dir)) = dir

\* A config.yaml stands in dir.
HoldsConfig(dir) == Append(dir, "config.yaml") \in files

\* _resolve_default_config_path was called with the bare name config.yaml, in a
\* working directory that holds no config.yaml, and has returned.
ResolvedDefaultName ==
    /\ phase = "returned"
    /\ path = [abs |-> FALSE, parts |-> <<"config.yaml">>]
    /\ ~HoldsConfig(cwd)

\* The path argument exists as it stands, from the working directory if relative.
PathExists == (IF path.abs THEN path.parts ELSE cwd \o DropDots(path.parts)) \in files

WaitReturnedTrue == caller = "idle" /\ last_call.op = "wait" /\ last_call.val

\* C15 as claimed: once wait_for_connection has returned true the readiness
\* flag reads true whenever the caller observes it, in every interleaving.
C15_ReadyAfterWait == WaitReturnedTrue => connected

\* C15, amended: once wait_for_connection has returned true, after a connect()
\* that returned without raising, the readiness flag reads true when the caller
\* observes it provided the disconnect callback has not run since that wait
\* began; a disconnect callback that runs between the handshake and the
\* observation leaves the flag clear although the wait returned true.
C15_ReadyUnlessDropped ==
    /\ (WaitReturnedTrue /\ ~cleared) => connected
    /\ WaitReturnedTrue => loops_started > 0
    /\ (caller = "idle" /\ last_call.op = "is_set") => (last_call.val => loops_started > 0)

\* A wait that had to block returned true and the flag is still set.
C15_Witness ==
    /\ WaitReturnedTrue
    /\ ~cleared
    /\ connected
    /\ last_call.seq = 2
    /\ log = <<"info: connected">>

\* A step in which _on_disconnect runs: it logs its warning.
OnDisconnectRuns ==
    \E j \in (Len(log) + 1)..Len(log') : log'[j] = "warning: disconnected"

\* C16: every step in which the disconnect callback runs, in the loop thread on
\* a drop or inside disconnect(), leaves the readiness flag clear; in that step
\* the caller makes no call, no new connection is opened (the layer calls no
\* reconnect) and no exception reaches the caller.
C16_DisconnectClearsFlag ==
    [][OnDisconnectRuns =>
          /\ connected' = FALSE
          /\ calls' = calls
          /\ sock' = "none"
          /\ caller' = "idle" \/ caller' = caller
          /\ last_call'.err = "none" \/ last_call' = last_call]_vars

\* The flag was set and an unexpected drop has cleared it, the loop still
\* running.
C16_Witness ==
    /\ Len(log) = 2
    /\ log[1] = "info: connected"
    /\ log[2] = "warning: disconnected"
    /\ loop_running
    /\ ~connected

\* C17: the readiness flag changes only in a step in which a callback runs: it
\* becomes set only where _on_connect runs with reason code 0, and becomes clear
\* only where _on_disconnect runs; an _on_connect with another reason code
\* leaves it as it is, and no step of connect(), wait_for_connection() or
\* publish_json(), nor disconnect() outside the callback, writes it.
C17_OnlyCallbacksWriteFlag ==
    [][/\ (~connected /\ connected') => log' = Append(log, "info: connected")
       /\ (connected /\ ~connected') => OnDisconnectRuns
       /\ log' = Append(log, "error: connect failed") => connected' = connected
       /\ (calls' # calls \/ caller' # caller) =>
             (connected' = connected \/ (caller = "client_disconnect" /\ OnDisconnectRuns))]_vars

\* A CONNACK that refuses the connection was logged and the flag is still clear.
C17_Witness ==
    /\ log = <<"error: connect failed">>
    /\ ~connected
    /\ sock = "rejected"

\* A step in which wait_for_connection returns.
WaitReturns == last_call' # last_call /\ last_call'.op = "wait"

\* C18: wait_for_connection returns at once with true when the flag is set at
\* the call and blocks otherwise; a set by the handshake-success callback while
\* it is blocked is never missed and makes it return true, even if the flag is
\* cleared again before it wakes; it returns false only from a block during
\* which the flag was never set; no step of it changes the flag; and a blocked
\* wait always returns.
C18_WaitForConnection ==
    /\ [][/\ (caller = "idle" /\ caller' = "waiting") => (~connected /\ waiter' = "blocked")
          /\ (caller = "idle" /\ WaitReturns) => (connected /\ last_call'.val)
          /\ (caller = "waiting" /\ ~connected /\ connected') => waiter' = "notified"
          /\ (caller = "waiting" /\ waiter = "notified") =>
                (waiter' = "notified" \/ (WaitReturns /\ last_call'.val))
          /\ (caller = "waiting" /\ waiter = "blocked" /\ WaitReturns) =>
                (~last_call'.val /\ ~connected)
          /\ (caller = "waiting" /\ waiter = "blocked") => ~connected
          /\ (WaitReturns \/ (caller' = "waiting" /\ caller = "idle")) => connected' = connected
          /\ WaitReturns => caller' = "idle" /\ waiter' = "none" /\ last_call'.err = "none"]_vars
    /\ (caller = "waiting") ~> (caller = "idle")

\* A blocked wait returned true for a set that a drop had already undone.
C18_Witness ==
    /\ WaitReturnedTrue
    /\ ~connected
    /\ log = <<"info: connected", "warning: disconnected">>
    /\ last_call.seq = 2

\* A step in which connect() raises.
ConnectRaises == last_call' # last_call /\ last_call'.op = "connect" /\ last_call'.err # "none"

\* C19: a connect() whose handshake cannot start raises that error to the caller
\* in the one step of its one attempt (logged once when it is an OSError): it
\* starts no network loop and leaves the readiness flag as it was, clear on a
\* manager that never connected; while no loop runs nothing but a connect() of
\* the caller opens a connection, so that nothing is retried internally; and
\* the caller may call connect() again.
C19_ConnectRaisesOnce ==
    [][/\ ConnectRaises =>
             /\ calls' = calls + 1
             /\ caller = "idle" /\ caller' = "idle"
             /\ connected' = connected
             /\ loop_running' = loop_running
             /\ loops_started' = loops_started
             /\ sock' = "none" \/ sock' = sock
             /\ last_call'.err \in ConnectErrors => log' = Append(log, "error: connecting")
             /\ loops_started = 0 => ~connected' /\ ~loop_running'
       /\ (~loop_running /\ sock = "none" /\ sock' # "none") =>
             (calls' = calls + 1 /\ caller' = "loop_start")
       /\ (~loop_running /\ ~loop_running') => connected' = connected \/ ~connected']_vars

\* The first connect() raised, a later one returned and the handshake succeeded.
C19_Witness ==
    /\ Len(log) = 2
    /\ log[1] = "error: connecting"
    /\ log[2] = "info: connected"
    /\ connected
    /\ loops_started = 1
    /\ last_call = [op |-> "connect", val |-> TRUE, err |-> "none", seq |-> 2]

\* disconnect() was the caller's last call.
Disconnected == caller = "idle" /\ last_call.op = "disconnect"

\* C20: disconnect() stops the network loop and closes the connection, running
\* the disconnect callback if one was open, and never raises; after it the loop
\* is stopped and nothing is connected.  Called on a manager that has no loop
\* and no connection (never connected, dropped and stopped, or already
\* disconnected) its two steps change neither the loop, the connection nor the
\* flag.
C20_DisconnectIdempotent ==
    /\ [](Disconnected =>
            /\ ~loop_running
            /\ sock = "none"
            /\ last_call.err = "none"
            /\ client_state \in {"disconnecting", "disconnected"})
    /\ [][/\ (caller = "idle" /\ caller' = "client_disconnect") => ~loop_running'
          /\ (caller = "client_disconnect" /\ caller' = "idle") =>
                /\ sock' = "none"
                /\ sock # "none" => ~connected'
                /\ last_call'.op = "disconnect" /\ last_call'.err = "none"
          /\ ((caller = "client_disconnect" \/ caller' = "client_disconnect")
                 /\ ~loop_running /\ sock = "none") =>
                <<connected, sock, loop_running, loops_started, waiter>>'
                    = <<connected, sock, loop_running, loops_started, waiter>>]_vars

\* disconnect() was called twice in a row on a manager that had connected.
C20_Witness ==
    /\ Disconnected
    /\ last_call.seq = 3
    /\ log = <<"info: connected", "warning: disconnected", "info: disconnected",
               "info: disconnected">>
    /\ ~connected

\* The transport client was told to disconnect and not to connect since.
Stopped == client_state \in {"disconnecting", "disconnected"}

\* A step in which the caller issues connect().
ConnectIssued ==
    \/ caller = "idle" /\ caller' = "loop_start"
    \/ last_call' # last_call /\ last_call'.op = "connect"

\* C21: a disconnect() on a manager whose connection is established returns
\* with the readiness flag clear, no connection and no network loop; and from
\* then on, in every step that is not a connect() of the caller, the flag does
\* not change, no connection is opened and no loop runs, so that no automatic
\* reconnection leaves the disconnected state.
C21_TerminalAfterDisconnect ==
    [][/\ (caller = "client_disconnect" /\ caller' = "idle" /\ sock = "established") =>
             /\ ~connected'
             /\ sock' = "none"
             /\ ~loop_running'
             /\ client_state' = "disconnecting"
       /\ (Stopped /\ ~ConnectIssued) =>
             /\ connected' = connected
             /\ sock' = "none"
             /\ ~loop_running'
             /\ Stopped']_vars

\* A connected manager was disconnected, and a wait_for_connection made
\* afterwards has timed out with the flag still clear.
C21_Witness ==
    /\ log = <<"info: connected", "warning: disconnected", "info: disconnected">>
    /\ Stopped
    /\ caller = "idle"
    /\ last_call = [op |-> "wait", val |-> FALSE, err |-> "none", seq |-> 3]
    /\ ~connected

\* The transport has made as many steps as the model follows.
RetryBudgetSpent == events = MaxEvents

\* C22: while the network loop runs, a step of the transport that loses an
\* established connection leaves the readiness flag clear and is no call of the
\* caller; the loop runs only on a client that is to stay connected; and from a
\* state where the loop runs with no connection, the flag becomes set again (or
\* the caller stops the loop with disconnect(), or the steps followed run out)
\* when the loop is scheduled and the broker accepts the handshake, also in the
\* behaviours where the caller makes no call at all.
C22_SelfHealing ==
    /\ [][(loop_running /\ sock = "established" /\ sock' # "established" /\ calls' = calls) =>
             /\ ~connected'
             /\ sock' = "none"
             /\ loop_running'
             /\ caller' = caller
             /\ last_call' = last_call]_vars
    /\ [](loop_running => client_state = "connecting")
    /\ (loop_running /\ sock = "none") ~> (connected \/ ~loop_running \/ RetryBudgetSpent)

\* After one connect() and no other call, the connection was established, lost
\* and established again by the loop.
C22_Witness ==
    /\ log = <<"info: connected", "warning: disconnected", "info: connected">>
    /\ calls = 1
    /\ caller = "idle"
    /\ connected
    /\ sock = "established"
    /\ loops_started = 1

\* A step in which the caller calls publish_json, and one in which it ends.
PublishCalled ==
    /\ caller = "idle"
    /\ caller' = "wait_for_publish" \/ (last_call' # last_call /\ last_call'.op = "publish")

PublishEnds == last_call' # last_call /\ last_call'.op = "publish"

\* C23: a publish_json called while the readiness flag is clear logs the
\* warning and hands the message to the transport, for every qos; a call made
\* while the flag is set logs no warning; and no publish_json ends with an
\* exception.
C23_PublishWarnsNeverRaises ==
    [][/\ (PublishCalled /\ ~connected) =>
             /\ log' = Append(log, "warning: not connected")
             /\ handle'.rc # "none"
       /\ (PublishCalled /\ connected) => log' = log
       /\ PublishEnds => last_call'.err = "none"]_vars

\* C24: a publish_json with qos 0 ends in the step that hands the message to
\* the transport, before any confirmation; one with qos > 0 does not end in
\* that step, returns only when the transport has confirmed the handoff of its
\* message, and, blocked on a message the transport accepted, does return once
\* it has.
C24_PublishBlocksOnQos ==
    /\ [][/\ (PublishCalled /\ handle'.qos = 0) =>
                /\ PublishEnds
                /\ caller' = "idle"
                /\ last_call'.err = "none"
                /\ handle'.rc # "none" /\ ~handle'.published
          /\ (PublishCalled /\ handle'.qos > 0) =>
                /\ caller' = "wait_for_publish"
                /\ last_call' = last_call
                /\ handle'.rc # "none" /\ ~handle'.published
          /\ (PublishEnds /\ handle.qos > 0 /\ caller = "wait_for_publish"
                 /\ last_call'.err = "none") => handle.published
          /\ (caller = "wait_for_publish" /\ caller' # caller) =>
                (PublishEnds /\ caller' = "idle" /\ handle' = handle)]_vars
    /\ (caller = "wait_for_publish" /\ handle.rc = "SUCCESS" /\ handle.published) ~>
          (caller = "idle" /\ last_call.op = "publish" /\ last_call.err = "none"
              /\ handle.published)

\* A publish_json with qos 1 has returned after the transport confirmed the
\* handoff.
C24_Witness ==
    /\ caller = "idle"
    /\ last_call.op = "publish"
    /\ last_call.err = "none"
    /\ handle.qos = 1
    /\ handle.published
    /\ connected

\* What the claim gives a credential: the value of the environment variable
\* that the key names, None when the key is absent, names nothing or names a
\* variable that is not set.
NamedVariable(mqtt_dict, key) ==
    IF key \in DOMAIN mqtt_dict /\ mqtt_dict[key].t = "str" /\ mqtt_dict[key].s # ""
      THEN Getenv(environ, mqtt_dict[key].s)
      ELSE Unset

\* C25: in every configuration load_config returns, username and password are
\* the values that the process environment (the .env file loaded) holds for
\* the variables named by username_env and password_env, None when the key is
\* absent or the variable is unset; and a connector built from a configuration
\* has credentials attached exactly when its username is not None, with that
\* username and password, and none when only a password was resolved.
C25_CredentialsFromEnvironment ==
    /\ pc \in {"done", "connector"} =>
          \A j \in 1..Len(ret[1].mqtt_configs) :
             /\ ret[1].mqtt_configs[j].val.username
                    = NamedVariable(mqtt_config_dicts[j].val, "username_env")
             /\ ret[1].mqtt_configs[j].val.password
                    = NamedVariable(mqtt_config_dicts[j].val, "password_env")
    /\ pc = "connector" =>
          /\ cfg # None
          /\ attached # None <=> cfg[1].username.set
          /\ attached # None =>
                attached[1] = [username |-> cfg[1].username, password |-> cfg[1].password]
          /\ (~cfg[1].username.set /\ cfg[1].password.set) => attached = None

\* A connector was built from a configuration whose password was resolved and
\* whose username was not: it is anonymous.
C25_Witness ==
    /\ pc = "connector"
    /\ cfg[1].password = EnvVal(<<"s3cret">>)
    /\ ~cfg[1].username.set
    /\ "username_env" \in DOMAIN mqtt_config_dicts[1].val
    /\ attached = None

\* The entries of a list as the claim keeps them: each one's text trimmed, the
\* blank ones dropped, the order kept.
TrimmedNonBlank(l) ==
    SelectSeq([j \in 1..Len(l) |-> Strip(PyStr(l[j]))], LAMBDA s : s # "")

\* What the claim makes of a names or colors node.
ListOrDefault(node, default) ==
    IF IsNone(node) \/ TrimmedNonBlank(node.l) = <<>> THEN default ELSE TrimmedNonBlank(node.l)

\* C26: in every SimulationConfig load_config returns, names and colors are
\* non-empty and hold no blank entry; each is the built-in default when its list
\* is absent or empty after trimming and dropping the blank entries, and
\* otherwise exactly the trimmed non-blank entries in their order.
C26_NameAndColorLists ==
    ReturnedSimulation =>
        LET sim == ret[1].simulation[1]
        IN  /\ sim.names # <<>> /\ \A j \in 1..Len(sim.names) : Strip(sim.names[j]) # ""
            /\ sim.colors # <<>> /\ \A j \in 1..Len(sim.colors) : Strip(sim.colors[j]) # ""
            /\ sim.names = ListOrDefault(data.simulation.names, DefaultNames)
            /\ sim.colors = ListOrDefault(data.simulation.colors, DefaultColors)

\* A names list with padded and blank entries was trimmed, and an all-blank
\* colors list was replaced by the default.
C26_Witness ==
    /\ ReturnedSimulation
    /\ data.simulation.names = Li(<<S(" Al "), S(""), S("b")>>)
    /\ ret[1].simulation[1].names = <<"Al", "b">>
    /\ data.simulation.colors = Li(<<S(" "), S("")>>)
    /\ ret[1].simulation[1].colors = DefaultColors

\* A step in which connect() returns without raising, and one in which
\* disconnect() is called.
ConnectReturns == last_call' # last_call /\ last_call'.op = "connect" /\ last_call'.err = "none"

DisconnectCalled == caller = "idle" /\ caller' = "client_disconnect"

\* C27: no loop runs on a manager before its first connect(); the loop runs
\* after every step in which connect() returns without raising and does not
\* run after a step in which disconnect() is called, and no other step, of the
\* caller or of the transport, starts or stops it; a connect() that raises
\* starts none; a loop thread is started only by a connect() that returns while
\* no loop runs, one at a time, so that a repeated connect() starts no second
\* one.
C27_OneLoopPerManager ==
    /\ [](loops_started = 0 => ~loop_running)
    /\ [][/\ ConnectReturns => loop_running'
          /\ DisconnectCalled => ~loop_running'
          /\ (~ConnectReturns /\ ~DisconnectCalled) => loop_running' = loop_running
          /\ ConnectRaises => (loop_running' = loop_running /\ loops_started' = loops_started)
          /\ loops_started' # loops_started =>
                (ConnectReturns /\ ~loop_running /\ loops_started' = loops_started + 1)
          /\ (ConnectReturns /\ loop_running) => loops_started' = loops_started]_vars

\* connect() has returned twice in a row and one loop thread was started.
C27_Witness ==
    /\ caller = "idle"
    /\ last_call = [op |-> "connect", val |-> TRUE, err |-> "none", seq |-> 2]
    /\ calls = 2
    /\ log = <<"info: connected">>
    /\ loop_running
    /\ loops_started = 1

\* The spellings that read as each weather and each mode once trimmed and
\* lower-cased.
RainSpellings == {"rain", " Rain "}
SunnySpellings == {"sunny", "SUNNY"}
ShopSpellings == {"move_to_shop", " Move_To_Shop "}
WalkSpellings == {"random_walk", "RANDOM_WALK"}

ShelterGuard == ShouldEnterShelterMode(controller.weather_state, controller.current_mode)
WalkGuard == ShouldEnterRandomWalkMode(controller.weather_state, controller.current_mode)

\* C28: on every weather and mode a controller meets, the shelter guard is true
\* exactly when the weather reads rain and the mode does not read move_to_shop,
\* the random-walk guard exactly when the weather reads sunny and the mode does
\* not read random_walk, and never both; after a step in which the controller
\* changed its mode neither guard is true on the same weather; and the
\* controller changes its mode at most once between two changes of weather.
C28_TransitionGuards ==
    /\ [](/\ ShelterGuard <=> (/\ controller.weather_state \in RainSpellings
                               /\ controller.current_mode \notin ShopSpellings)
          /\ WalkGuard <=> (/\ controller.weather_state \in SunnySpellings
                            /\ controller.current_mode \notin WalkSpellings)
          /\ ~(ShelterGuard /\ WalkGuard)
          /\ controller.transitions <= 1)
    /\ [][controller'.current_mode # controller.current_mode =>
             /\ controller'.weather_state = controller.weather_state
             /\ ~ShelterGuard'
             /\ ~WalkGuard'
             /\ ShelterGuard \/ WalkGuard]_vars

\* Under rain spelled " Rain " a controller has taken shelter, its one change
\* of mode in three ticks.
C28_Witness ==
    /\ controller.weather_state = " Rain "
    /\ controller.current_mode = "move_to_shop"
    /\ controller.transitions = 1
    /\ controller.tick = 3

\* What is left to the target, before and after a step.
Remaining == Hypot(trip.target_x - trip.x, trip.target_y - trip.y)
RemainingAfter == Hypot(trip'.target_x - trip'.x, trip'.target_y - trip'.y)

\* step_distance > 0, and a positive step distance that is lost in the
\* rounding of x + dx * ratio and y + dy * ratio.
PositiveStep == ~FloatLeq(trip.step_distance, Whole(0))
LostInRounding == PositiveStep /\ trip.step_distance.whole = 0

\* What every call does whatever its step distance: one more call is counted
\* and the arguments stay; step_distance <= 0 raises ValueError and moves
\* nothing; step_distance > 0 raises nothing and reports arrival exactly when
\* the remaining distance is at most step_distance, and is then at the target.
CallContract ==
    /\ trip'.steps = trip.steps + 1
    /\ <<trip'.target_x, trip'.target_y, trip'.step_distance>>
           = <<trip.target_x, trip.target_y, trip.step_distance>>
    /\ ~PositiveStep =>
          /\ trip'.raised = "ValueError"
          /\ ~trip'.arrived
          /\ <<trip'.x, trip'.y>> = <<trip.x, trip.y>>
    /\ PositiveStep =>
          /\ trip'.raised = "none"
          /\ trip'.arrived <=> FloatLeq(Whole(Remaining), trip.step_distance)
          /\ trip'.arrived => <<trip'.x, trip'.y>> = <<trip.target_x, trip.target_y>>

\* The call has moved step_distance from where it was and is that much nearer
\* to the target (on the segment, not beyond the target), so that the
\* remaining distance has strictly decreased.
MovedOneStep ==
    /\ Whole(Hypot(trip'.x - trip.x, trip'.y - trip.y)) = trip.step_distance
    /\ Whole(RemainingAfter) = FloatAdd(Whole(Remaining), FloatNeg(trip.step_distance))
    /\ RemainingAfter < Remaining
    /\ RemainingAfter > 0

\* C29 as stated: a call with step_distance <= 0 raises ValueError; a call
\* with step_distance > 0 reports arrival exactly when the remaining distance
\* is at most step_distance, and is then at the target; otherwise it is
\* step_distance away from where it was and the remaining distance has
\* strictly decreased; and every walk with a positive step distance arrives.
C29_ArrivesFromAnyStart ==
    /\ [][trip' # trip =>
             /\ CallContract
             /\ (PositiveStep /\ ~trip'.arrived) => MovedOneStep]_vars
    /\ [](PositiveStep => <>trip.arrived)
    /\ [](trip.raised # "none" => ~PositiveStep)

\* C29, amended: as stated, for the step distances that are not lost in the
\* rounding; a call whose step distance is lost in the rounding of the
\* position leaves the position where it is with arrived false, and a walk of
\* such calls that is not at its target never arrives.
C29_StepTowardTarget ==
    /\ [][trip' # trip =>
             /\ CallContract
             /\ (PositiveStep /\ ~LostInRounding /\ ~trip'.arrived) => MovedOneStep
             /\ (LostInRounding /\ ~trip'.arrived) =>
                   <<trip'.x, trip'.y>> = <<trip.x, trip.y>>]_vars
    /\ [](PositiveStep /\ ~LostInRounding => <>trip.arrived)
    /\ []((LostInRounding /\ Remaining > 0) => ~trip.arrived)
    /\ [](trip.raised # "none" => ~PositiveStep)

\* Two calls with step distance 1e-17 from (-3, 7) towards (0, 11) have left
\* the walker at (-3, 7), not arrived.
C29_Witness ==
    /\ trip.steps = 2
    /\ <<trip.target_x, trip.target_y>> = <<0, 11>>
    /\ trip.step_distance = Tiny(1)
    /\ <<trip.x, trip.y>> = <<-3, 7>>
    /\ ~trip.arrived
    /\ trip.raised = "none"

\* The walker is inside the map, and which walls the position it is at lies
\* beyond.
InsideMap ==
    /\ walker.min_x <= walker.x /\ walker.x <= walker.max_x
    /\ walker.min_y <= walker.y /\ walker.y <= walker.max_y

BeyondX == walker.x < walker.min_x \/ walker.x > walker.max_x
BeyondY == walker.y < walker.min_y \/ walker.y > walker.max_y

\* A step in which apply_boundary_bounce is applied.
Bounces == walker.phase = "stepped" /\ walker'.phase = "bounced"

\* A heading lies in [0, 360).
InCircle(h) == 0 <= h.whole /\ h.whole < 360 /\ (h.whole = 0 => h.tiny >= 0)

\* Two headings are the same direction as far as floats tell: they differ by
\* whole turns and by no more than a value that rounding loses.
SameDirection(g, h) == (g.whole - h.whole) % 360 = 0

\* C30: apply_boundary_bounce leaves a position inside the map where it is and
\* only reduces its heading modulo 360; a position beyond a wall by no more
\* than the map's extent is put as far inside that wall as it was beyond it,
\* and its heading is mirrored, 180 - h for an x wall and -h for a y wall; the
\* result is inside the map and its heading lies in [0, 360).  A walker that
\* steps by no more than the map's extents is inside after every bounce.
C30_BounceKeepsInside ==
    /\ [](walker.phase = "bounced" => (InsideMap /\ InCircle(walker.heading_deg)))
    /\ [][Bounces =>
             /\ InsideMap =>
                   /\ <<walker'.x, walker'.y>> = <<walker.x, walker.y>>
                   /\ SameDirection(walker'.heading_deg, walker.heading_deg)
             /\ walker.x < walker.min_x => walker'.x - walker.min_x = walker.min_x - walker.x
             /\ walker.x > walker.max_x => walker.max_x - walker'.x = walker.x - walker.max_x
             /\ ~BeyondX => walker'.x = walker.x
             /\ walker.y < walker.min_y => walker'.y - walker.min_y = walker.min_y - walker.y
             /\ walker.y > walker.max_y => walker.max_y - walker'.y = walker.y - walker.max_y
             /\ ~BeyondY => walker'.y = walker.y
             /\ (BeyondX /\ ~BeyondY) =>
                   SameDirection(walker'.heading_deg,
                                 [whole |-> 180 - walker.heading_deg.whole,
                                  tiny |-> -walker.heading_deg.tiny])
             /\ (BeyondY /\ ~BeyondX) =>
                   SameDirection(walker'.heading_deg, FloatNeg(walker.heading_deg))
             /\ (BeyondX /\ BeyondY) =>
                   SameDirection(walker'.heading_deg,
                                 [whole |-> walker.heading_deg.whole - 180,
                                  tiny |-> walker.heading_deg.tiny])
             /\ InCircle(walker'.heading_deg)
             /\ <<walker'.min_x, walker'.max_x, walker'.min_y, walker'.max_y>>
                    = <<walker.min_x, walker.max_x, walker.min_y, walker.max_y>>]_vars

====
